---- MODULE Spec2Model ----
(***************************************************************************)
(* A byte-level model of the size-class allocator of this repository.      *)
(*                                                                         *)
(* The repository holds three builds of the same four entry points:        *)
(*   "P2"  src/unnamed/part_002       (large-region list, search on free)  *)
(*   "A1"  src/allocator.c   1..282   (page mask + magic, resize fast path)*)
(*   "A2"  src/allocator.c 283..559   (per-class global free lists)        *)
(* The variable `variant` says which build runs; it never changes.         *)
(*                                                                         *)
(* Memory is a sparse map from byte addresses to byte values (absent = 0). *)
(* Page and region headers, free-list links and user data all live in it,  *)
(* so a link write that leaves its cell changes whatever lies there.       *)
(***************************************************************************)
EXTENDS Integers, Sequences, FiniteSets, TLC

(* ---------------------------------------------------------------- bounds *)
\* page slots of the modelled address space (slot k is [k*P, (k+1)*P))
NSlots == 3
\* width of size_t in the model: sizes are computed modulo 2^SizeBits
SizeBits == 14
\* pointers the client holds at once
MaxLive == 4
\* calls of one run
MaxCalls == 3
\* width of size_t where calloc is run on every pair of operands
CallocBits == 5

(* ------------------------------------------------------ program constants *)
PAGE_SIZE == 4096
ALIGN == 8
NUM_SIZE_CLASSES == 10
MAX_SMALL_SIZE == 1024
MIN_SIZE == 2
MAX_SMALL == 1024
NULL == 0
\* the value of mmap's MAP_FAILED, and of a pointer that is no address
MAP_FAILED == 0 - 1
WILD == 0 - 2
\* a size_t read from memory that is beyond every size of the model
HUGE == 2147483647 - 1
\* sizeof(void *), sizeof(size_t)
PtrSize == 8

\* size_t arithmetic at a width of bits, and at the model's width
Wrap(n, bits) == n % (2^bits)
SizeMax(bits) == 2^bits - 1
SIZE_MAX == SizeMax(SizeBits)
WrapSize(n) == Wrap(n, SizeBits)

Variants == {"P2", "A1", "A2"}

VARIABLES variant, mem, img, own, heads, flists, lhead, status, live, last, calls,
          thr
vars == <<variant, mem, img, own, heads, flists, lhead, status, live, last, calls,
          thr>>

\* thr[t] is where thread t stands in a call of malloc that runs one access
\* of the shared state at a time (pc), with the locals of that call; the
\* calls of a single-threaded client are single steps and leave thr alone
Threads == {1, 2}
\* no call of this kind made yet
NONE == 0 - 3
\* ret: what the thread's call for a small block returned; reg: the region
\* its call for a large block mapped
Idle == [pc |-> "idle", n |-> 0, page |-> 0, block |-> 0, next |-> 0,
         ret |-> NONE, reg |-> NONE]

(* ------------------------------------------------------------ byte memory *)
Zero8 == <<0, 0, 0, 0, 0, 0, 0, 0>>
\* bytes 4..7 of every address of the process (mmap area of a 64-bit
\* address space: 0x00007f12xxxxxxxx)
AddrTag == <<18, 127, 0, 0>>

ByteOf(n, k) == (n \div (256^k)) % 256

\* the bytes of a pointer that is no address of the process
Wild8 == <<1, 1, 1, 1, 1, 1, 1, 1>>

EncPtr(p) ==
  IF p = NULL THEN Zero8
  ELSE IF p < 0 THEN Wild8
  ELSE [k \in 1..8 |-> IF k <= 4 THEN ByteOf(p, k - 1) ELSE AddrTag[k - 4]]

Low32(b) == b[1] + 256 * b[2] + 65536 * b[3] + 16777216 * b[4]

DecPtr(b) ==
  IF b = Zero8 THEN NULL
  ELSE IF <<b[5], b[6], b[7], b[8]>> = AddrTag /\ b[4] < 128 THEN Low32(b)
  ELSE WILD

EncSize(n) == [k \in 1..8 |-> IF k <= 4 THEN ByteOf(n, k - 1) ELSE 0]

DecSize(b) ==
  IF <<b[5], b[6], b[7], b[8]>> = <<0, 0, 0, 0>> /\ b[4] < 128 THEN Low32(b)
  ELSE HUGE

\* What a fresh page holds after its cells were linked, kept as a formula
\* instead of as some thousand stored bytes: img[slot] = [area, stride, n,
\* fwd] says that link i (PtrSize bytes) was stored at area + i * stride
\* for i = 0..n-1, in increasing i.

\* link i of a page image: the cell before (part_002, allocator.c:85-89) or
\* the cell after (allocator.c:384-391)
ImgLink(d, i) ==
  IF d.fwd THEN (IF i = d.n - 1 THEN NULL ELSE d.area + (i + 1) * d.stride)
  ELSE (IF i = 0 THEN NULL ELSE d.area + (i - 1) * d.stride)

\* the byte the linking loop left at address a (a byte holds what the last
\* link covering it put there)
ImgByte(d, a) ==
  IF d.n = 0 \/ a < d.area \/ a > d.area + (d.n - 1) * d.stride + PtrSize - 1 THEN 0
  ELSE LET o == a - d.area
           i == IF o \div d.stride < d.n THEN o \div d.stride ELSE d.n - 1
           r == o - i * d.stride
       IN IF r < PtrSize THEN EncPtr(ImgLink(d, i))[r + 1] ELSE 0

SlotOf(a) == a \div PAGE_SIZE

\* the byte under the stored bytes: the page image, cut at the page's end
Under(s, a) ==
  IF SlotOf(a) \in DOMAIN s.img THEN ImgByte(s.img[SlotOf(a)], a) ELSE 0

\* s.mem holds exactly the bytes that differ from Under
Byte(s, a) == IF a \in DOMAIN s.mem THEN s.mem[a] ELSE Under(s, a)

Rd8(s, a) == [k \in 1..8 |-> Byte(s, a + k - 1)]
Rd4(s, a) == [k \in 1..4 |-> Byte(s, a + k - 1)]

\* s.mem with the bytes of W (address -> byte) stored
Store(s, W) ==
  LET keep == {x \in DOMAIN s.mem : x \notin DOMAIN W}
      new == {x \in DOMAIN W : W[x] # Under(s, x)}
  IN [x \in keep \cup new |-> IF x \in DOMAIN W THEN W[x] ELSE s.mem[x]]

\* m with every byte of [a, a + len) dropped (a fresh or a removed mapping)
Clear(m, a, len) ==
  LET keep == {x \in DOMAIN m : x < a \/ x >= a + len}
  IN [x \in keep |-> m[x]]


\* Can [a, a + len) be accessed?  The allocator's own mappings can.  Any
\* other page of the address space can only when the caller's process has
\* something else mapped there (fm); page 0 and non-addresses never can.
Accessible(s, a, len, fm) ==
  \/ len = 0
  \/ /\ a >= PAGE_SIZE
     /\ \A k \in SlotOf(a)..SlotOf(a + len - 1) :
           k \in s.own \/ (fm /\ k \in 1..(NSlots + 1))

Segv(s) == [s EXCEPT !.status = "segv"]
Hang(s) == [s EXCEPT !.status = "hang"]

\* store the byte sequence b at a
Wr(s, a, b, fm) ==
  IF s.status # "ok" THEN s
  ELSE IF ~Accessible(s, a, Len(b), fm) THEN Segv(s)
  ELSE [s EXCEPT !.mem = Store(s, [x \in a..(a + Len(b) - 1) |-> b[x - a + 1]])]

\* the addresses of [a, a + len) whose page image is not 0
ImgNZ(s, a, len) ==
  UNION {
    LET d == s.img[k]
        lo == IF a > k * PAGE_SIZE THEN a ELSE k * PAGE_SIZE
        hi == IF a + len < (k + 1) * PAGE_SIZE THEN a + len - 1
              ELSE (k + 1) * PAGE_SIZE - 1
        i0 == IF lo - PtrSize < d.area THEN 0 ELSE (lo - PtrSize - d.area) \div d.stride
        i1 == IF (hi - d.area) \div d.stride < d.n THEN (hi - d.area) \div d.stride
              ELSE d.n - 1
    IN {x \in {d.area + i * d.stride + r : i \in i0..i1, r \in 0..(PtrSize - 1)} :
          x >= lo /\ x <= hi /\ ImgByte(d, x) # 0}
    : k \in {j \in SlotOf(a)..SlotOf(a + len - 1) : j \in DOMAIN s.img} }

\* the addresses of [a, a + len) that may hold a byte other than 0
NonZero(s, a, len) ==
  {x \in DOMAIN s.mem : x >= a /\ x < a + len} \cup ImgNZ(s, a, len)

\* memcpy(dst, src, len): only offsets where the source or the destination
\* holds something can change a byte
memcpy(s, dst, src, len, fm) ==
  IF s.status # "ok" \/ len = 0 THEN s
  ELSE IF ~Accessible(s, dst, len, fm) \/ ~Accessible(s, src, len, fm) THEN Segv(s)
  ELSE LET offs == {x - src : x \in NonZero(s, src, len)}
                     \cup {x - dst : x \in NonZero(s, dst, len)}
       IN [s EXCEPT !.mem = Store(s, [x \in {dst + o : o \in offs} |->
                                         Byte(s, src + (x - dst))])]

\* memset(dst, 0, len)
memset0(s, dst, len, fm) ==
  IF s.status # "ok" \/ len = 0 THEN s
  ELSE IF ~Accessible(s, dst, len, fm) THEN Segv(s)
  ELSE [s EXCEPT !.mem = Store(s, [x \in NonZero(s, dst, len) |-> 0])]

WrPtr(s, a, p, fm) == Wr(s, a, EncPtr(p), fm)
WrSize(s, a, n, fm) == Wr(s, a, EncSize(n), fm)

(* ------------------------------------------------------------ mmap/munmap *)
PagesOf(len) == (len + PAGE_SIZE - 1) \div PAGE_SIZE

\* mmap(NULL, len, ...): the kernel places the mapping at slot `at`, or
\* refuses (at = 0, a length of 0, or no room there).
mmapResult(s, len, at) ==
  IF at = 0 \/ len = 0 \/ len = HUGE THEN MAP_FAILED
  ELSE IF \A k \in at..(at + PagesOf(len) - 1) : k \in 1..NSlots /\ k \notin s.own
       THEN at * PAGE_SIZE
       ELSE MAP_FAILED

\* the state after the call (nmap counts the calls of mmap)
mmap(s, len, at) ==
  LET base == mmapResult(s, len, at) IN
  IF base = MAP_FAILED THEN [s EXCEPT !.nmap = @ + 1]
  ELSE [s EXCEPT !.nmap = @ + 1,
                 !.own = @ \cup (at..(at + PagesOf(len) - 1)),
                 !.mem = Clear(@, base, PagesOf(len) * PAGE_SIZE)]

\* munmap(addr, len): every page of [addr, addr + len) leaves the address
\* space; EINVAL (nothing happens) when addr is not page aligned, len is 0
\* or the range leaves the address space.
munmap(s, addr, len) ==
  IF s.status # "ok" THEN s
  ELSE IF addr % PAGE_SIZE # 0 \/ addr < 0 \/ len = 0 \/ len = HUGE
       THEN [s EXCEPT !.nunmap = @ + 1]
  ELSE LET gone == SlotOf(addr)..(SlotOf(addr) + PagesOf(len) - 1) IN
       [s EXCEPT !.nunmap = @ + 1,
                 !.own = @ \ gone,
                 !.mem = Clear(@, addr, PagesOf(len) * PAGE_SIZE),
                 !.img = [k \in DOMAIN @ \ gone |-> @[k]]]

\* a loop over a linked list runs at most this many rounds before the model
\* calls it endless (a list of the model has at most NSlots nodes)
Fuel == NSlots + 1

RetOf(s, r) == IF s.status = "ok" THEN [s EXCEPT !.ret = r] ELSE s

\* `x = e; rest`: e runs once, and what follows sees its result as x
Then(e, rest(_)) == CHOOSE y \in {rest(x) : x \in {e}} : TRUE

\* the assignments to the globals: the head of class i's page list, the head
\* of class i's free list, the head of the large list
SetHead(s, i, page) == IF s.status = "ok" THEN [s EXCEPT !.heads[i] = page] ELSE s
SetFreeList(s, i, block) == IF s.status = "ok" THEN [s EXCEPT !.flists[i] = block] ELSE s
SetLargeHead(s, large) == IF s.status = "ok" THEN [s EXCEPT !.lhead = large] ELSE s

(* ===================================================== build P2: part_002 *)
P2_sizeof_page_metadata == 24
P2_sizeof_large_block_header == 24

size_to_class(size) ==
  IF size <= 2 THEN 0
  ELSE IF size <= 4 THEN 1
  ELSE IF size <= 8 THEN 2
  ELSE IF size <= 16 THEN 3
  ELSE IF size <= 32 THEN 4
  ELSE IF size <= 64 THEN 5
  ELSE IF size <= 128 THEN 6
  ELSE IF size <= 256 THEN 7
  ELSE IF size <= 512 THEN 8
  ELSE IF size <= 1024 THEN 9
  ELSE 0 - 1

class_to_size(class_index) == 2^(class_index + 1)

\* The loop `for i < num_blocks: block_i->next = link(i)` on a fresh page:
\* the bytes that stay in the page become its image; the bytes of a link
\* that reaches past the page's end (a stride below PtrSize) are stored in
\* whatever lies behind the page.
WrLinks(s, page, area, stride, num_blocks, fwd, fm) ==
  IF s.status # "ok" \/ num_blocks <= 0 THEN s
  ELSE IF ~Accessible(s, area, (num_blocks - 1) * stride + PtrSize, fm) THEN Segv(s)
  ELSE
    LET d == [area |-> area, stride |-> stride, n |-> num_blocks, fwd |-> fwd]
        end == page + PAGE_SIZE
        top == area + (num_blocks - 1) * stride + PtrSize - 1
        s1 == [s EXCEPT !.img = [k \in DOMAIN @ \cup {SlotOf(page)} |->
                                   IF k = SlotOf(page) THEN d ELSE @[k]]]
    IN [s1 EXCEPT !.mem = Store(s1, [x \in end..top |-> ImgByte(d, x)])]

\* returns the state with .ret = the new page, or NULL
create_page_for_size(s, block_size, at, fm) ==
  LET page == mmapResult(s, PAGE_SIZE, at) IN
  IF page = MAP_FAILED THEN RetOf(mmap(s, PAGE_SIZE, at), NULL)
  ELSE
    LET s0 == mmap(s, PAGE_SIZE, at)
        s1 == WrSize(s0, page, block_size, fm)
        s2 == WrPtr(s1, page + 8, NULL, fm)
        s3 == WrPtr(s2, page + 16, NULL, fm)
        metadata_size == ((P2_sizeof_page_metadata + ALIGN - 1) \div ALIGN) * ALIGN
        usable_space == PAGE_SIZE - metadata_size
        num_blocks == usable_space \div block_size
        block_area == page + metadata_size
        s4 == WrLinks(s3, page, block_area, block_size, num_blocks, FALSE, fm)
    IN Then(s4, LAMBDA t :
         RetOf(IF num_blocks > 0
               THEN WrPtr(t, page + 16, block_area + (num_blocks - 1) * block_size, fm)
               ELSE t,
               page))

\* the walk `while (page) { if (in range) return page; page = page->next; }`
RECURSIVE P2_find_from(_, _, _, _, _)
P2_find_from(s, page, ptr, fm, fuel) ==
  IF page = NULL THEN RetOf(s, NULL)
  ELSE IF fuel = 0 THEN Hang(s)
  ELSE IF ptr >= page /\ ptr < page + PAGE_SIZE THEN RetOf(s, page)
  ELSE IF ~Accessible(s, page + 8, PtrSize, fm) THEN Segv(s)
  ELSE P2_find_from(s, DecPtr(Rd8(s, page + 8)), ptr, fm, fuel - 1)

find_page_containing_ptr(s, ptr, class_index, fm) ==
  P2_find_from(s, s.heads[class_index], ptr, fm, Fuel)

\* the walk `while (page && page->free_list == NULL) page = page->next;`
RECURSIVE P2_first_free(_, _, _, _)
P2_first_free(s, page, fm, fuel) ==
  IF page = NULL THEN RetOf(s, NULL)
  ELSE IF fuel = 0 THEN Hang(s)
  ELSE IF ~Accessible(s, page, P2_sizeof_page_metadata, fm) THEN Segv(s)
  ELSE IF Rd8(s, page + 16) # Zero8 THEN RetOf(s, page)
  ELSE P2_first_free(s, DecPtr(Rd8(s, page + 8)), fm, fuel - 1)

\* a variation of P2_pop: the head cell is returned but stays on the list
P2_pop_stale(s, page, fm) ==
  IF s.status # "ok" THEN s
  ELSE IF ~Accessible(s, page + 16, PtrSize, fm) THEN Segv(s)
  ELSE RetOf(s, DecPtr(Rd8(s, page + 16)))

\* `block = page->free_list; page->free_list = block->next; return block;`
P2_pop(s, page, fm) ==
  IF s.status # "ok" THEN s
  ELSE IF ~Accessible(s, page + 16, PtrSize, fm) THEN Segv(s)
  ELSE Then(DecPtr(Rd8(s, page + 16)), LAMBDA block :
         IF ~Accessible(s, block, PtrSize, fm) THEN Segv(s)
         ELSE RetOf(Wr(s, page + 16, Rd8(s, block), fm), block))

P2_malloc(s, size, at, fm) ==
  IF s.status # "ok" THEN s
  ELSE IF size = 0 THEN RetOf(s, NULL)
  ELSE
    LET class_index == size_to_class(size) IN
    IF class_index = 0 - 1 THEN
      LET total_size == WrapSize(size + P2_sizeof_large_block_header)
          num_pages == WrapSize(total_size + PAGE_SIZE - 1) \div PAGE_SIZE
          alloc_size == WrapSize(num_pages * PAGE_SIZE)
          memp == mmapResult(s, alloc_size, at)
      IN IF memp = MAP_FAILED THEN RetOf(mmap(s, alloc_size, at), NULL)
         ELSE
           LET s0 == mmap(s, alloc_size, at)
               s1 == WrSize(s0, memp, alloc_size, fm)
               s2 == WrPtr(s1, memp + 8, s.lhead, fm)
               s3 == WrPtr(s2, memp + 16, NULL, fm)
           IN Then(s3, LAMBDA t :
                RetOf(SetLargeHead(IF s.lhead # NULL
                                   THEN WrPtr(t, s.lhead + 16, memp, fm) ELSE t,
                                   memp),
                      memp + P2_sizeof_large_block_header))
    ELSE
      LET block_size == class_to_size(class_index) IN
      Then(P2_first_free(s, s.heads[class_index], fm, Fuel), LAMBDA w :
        IF w.status # "ok" THEN w
        ELSE IF w.ret # NULL THEN P2_pop(w, w.ret, fm)
        ELSE
          Then(create_page_for_size(s, block_size, at, fm), LAMBDA c :
            IF c.status # "ok" \/ c.ret = NULL THEN c
            ELSE
              LET page == c.ret
                  c1 == WrPtr(c, page + 8, s.heads[class_index], fm)
              IN P2_pop(SetHead(c1, class_index, page), page, fm)))

\* a variation of the walk of free(): the region is unlinked from its
\* predecessor but large->next->prev is left as it was
RECURSIVE P2_free_large_from_half(_, _, _, _, _)
P2_free_large_from_half(s, large, ptr, fm, fuel) ==
  IF large = NULL THEN RetOf(s, 0)
  ELSE IF fuel = 0 THEN Hang(s)
  ELSE IF large + P2_sizeof_large_block_header = ptr THEN
    IF ~Accessible(s, large, P2_sizeof_large_block_header, fm) THEN Segv(s)
    ELSE
      LET prev == DecPtr(Rd8(s, large + 16))
          next == DecPtr(Rd8(s, large + 8))
          s1 == IF prev # NULL THEN WrPtr(s, prev + 8, next, fm)
                ELSE [s EXCEPT !.lhead = next]
      IN Then(s1, LAMBDA t1 :
           RetOf(munmap(t1, large, DecSize(Rd8(t1, large))), 1))
  ELSE IF ~Accessible(s, large + 8, PtrSize, fm) THEN Segv(s)
  ELSE P2_free_large_from_half(s, DecPtr(Rd8(s, large + 8)), ptr, fm, fuel - 1)

\* the walk over the large list of free(): unlink and unmap the region whose
\* user pointer is ptr; .ret = 1 when one was found, else 0
RECURSIVE P2_free_large_from(_, _, _, _, _)
P2_free_large_from(s, large, ptr, fm, fuel) ==
  IF large = NULL THEN RetOf(s, 0)
  ELSE IF fuel = 0 THEN Hang(s)
  ELSE IF large + P2_sizeof_large_block_header = ptr THEN
    IF ~Accessible(s, large, P2_sizeof_large_block_header, fm) THEN Segv(s)
    ELSE
      LET prev == DecPtr(Rd8(s, large + 16))
          next == DecPtr(Rd8(s, large + 8))
          s1 == IF prev # NULL THEN WrPtr(s, prev + 8, next, fm)
                ELSE [s EXCEPT !.lhead = next]
      IN Then(s1, LAMBDA t1 :
           Then(IF next # NULL THEN WrPtr(t1, next + 16, prev, fm) ELSE t1, LAMBDA t2 :
             \* large->total_size is read after the unlinking writes
             RetOf(munmap(t2, large, DecSize(Rd8(t2, large))), 1)))
  ELSE IF ~Accessible(s, large + 8, PtrSize, fm) THEN Segv(s)
  ELSE P2_free_large_from(s, DecPtr(Rd8(s, large + 8)), ptr, fm, fuel - 1)

\* the loop `for (i = 0; i < NUM_SIZE_CLASSES; i++)` of free() from class i
RECURSIVE P2_free_small_from(_, _, _, _)
P2_free_small_from(s, ptr, i, fm) ==
  IF i >= NUM_SIZE_CLASSES THEN RetOf(s, NULL)
  ELSE
    Then(find_page_containing_ptr(s, ptr, i, fm), LAMBDA f :
      IF f.status # "ok" THEN f
      ELSE IF f.ret # NULL THEN
        LET page == f.ret IN
        IF ~Accessible(s, page + 16, PtrSize, fm) THEN Segv(s)
        ELSE LET s1 == Wr(s, ptr, Rd8(s, page + 16), fm)
                 s2 == WrPtr(s1, page + 16, ptr, fm)
             IN RetOf(s2, NULL)
      ELSE P2_free_small_from(s, ptr, i + 1, fm))

P2_free(s, ptr, fm) ==
  IF s.status # "ok" THEN s
  ELSE IF ptr = NULL THEN RetOf(s, NULL)
  ELSE
    Then(P2_free_large_from(s, s.lhead, ptr, fm, Fuel), LAMBDA l :
      IF l.status # "ok" THEN l
      ELSE IF l.ret = 1 THEN RetOf(l, NULL)
      ELSE P2_free_small_from(s, ptr, 0, fm))

\* bits: the width of size_t the product is computed at
P2_calloc(s, nmemb, size, at, fm, bits) ==
  IF s.status # "ok" THEN s
  ELSE IF nmemb = 0 \/ size = 0 THEN RetOf(s, NULL)
  ELSE
    LET total_size == Wrap(nmemb * size, bits) IN
    IF total_size \div nmemb # size THEN RetOf(s, NULL)
    ELSE Then(P2_malloc(s, total_size, at, fm), LAMBDA m :
           IF m.status # "ok" \/ m.ret = NULL THEN m
           ELSE RetOf(memset0(m, m.ret, total_size, fm), m.ret))

\* the walk over the large list of realloc(): .ret = the capacity of the
\* region whose user pointer is ptr, 0 when there is none
RECURSIVE P2_large_size_from(_, _, _, _, _)
P2_large_size_from(s, large, ptr, fm, fuel) ==
  IF large = NULL THEN RetOf(s, 0)
  ELSE IF fuel = 0 THEN Hang(s)
  ELSE IF ~Accessible(s, large, P2_sizeof_large_block_header, fm) THEN Segv(s)
  ELSE IF large + P2_sizeof_large_block_header = ptr
       THEN LET total == DecSize(Rd8(s, large)) IN
            RetOf(s, IF total = HUGE THEN HUGE
                     ELSE WrapSize(total - P2_sizeof_large_block_header))
  ELSE P2_large_size_from(s, DecPtr(Rd8(s, large + 8)), ptr, fm, fuel - 1)

\* the loop over the classes of realloc(): .ret = page->block_size of the
\* first page found to hold ptr, 0 when there is none
RECURSIVE P2_small_size_from(_, _, _, _)
P2_small_size_from(s, ptr, i, fm) ==
  IF i >= NUM_SIZE_CLASSES THEN RetOf(s, 0)
  ELSE
    Then(find_page_containing_ptr(s, ptr, i, fm), LAMBDA f :
      IF f.status # "ok" THEN f
      ELSE IF f.ret # NULL THEN
        IF ~Accessible(s, f.ret, PtrSize, fm) THEN Segv(s)
        ELSE RetOf(s, DecSize(Rd8(s, f.ret)))
      ELSE P2_small_size_from(s, ptr, i + 1, fm))

\* a variation of P2_realloc: a plain allocation that forgets ptr
P2_realloc_forget(s, ptr, size, at, fm) == P2_malloc(s, size, at, fm)

\* a variation of P2_realloc: the old block is released before the new one
\* is allocated
P2_realloc_release_first(s, ptr, size, at, fm) ==
  IF s.status # "ok" THEN s
  ELSE IF ptr = NULL THEN P2_malloc(s, size, at, fm)
  ELSE IF size = 0 THEN RetOf(P2_free(s, ptr, fm), NULL)
  ELSE P2_malloc(P2_free(s, ptr, fm), size, at, fm)

P2_realloc(s, ptr, size, at, fm) ==
  IF s.status # "ok" THEN s
  ELSE IF ptr = NULL THEN P2_malloc(s, size, at, fm)
  ELSE IF size = 0 THEN RetOf(P2_free(s, ptr, fm), NULL)
  ELSE
    Then(Then(P2_large_size_from(s, s.lhead, ptr, fm, Fuel), LAMBDA l :
           IF l.status = "ok" /\ l.ret = 0 THEN P2_small_size_from(s, ptr, 0, fm)
           ELSE l), LAMBDA o :
      IF o.status # "ok" THEN o
      ELSE
        Then(P2_malloc(s, size, at, fm), LAMBDA m :
          IF m.status # "ok" \/ m.ret = NULL THEN m
          ELSE
            LET old_size == o.ret
                new_ptr == m.ret
                copy_size == IF old_size < size THEN old_size ELSE size
                c == memcpy(m, new_ptr, ptr, copy_size, fm)
            IN RetOf(P2_free(c, ptr, fm), new_ptr)))


(* ============================================ build A1: allocator.c 1..282 *)
A1_sizeof_page_header == 40
A1_sizeof_large_header == 16
\* LARGE_ALLOC_MAGIC 0xDEADBEEF as the four bytes of a uint32_t
LARGE_ALLOC_MAGIC == <<239, 190, 173, 222>>

get_size_class(size) ==
  IF size <= 2 THEN 0
  ELSE IF size <= 4 THEN 1
  ELSE IF size <= 8 THEN 2
  ELSE IF size <= 16 THEN 3
  ELSE IF size <= 32 THEN 4
  ELSE IF size <= 64 THEN 5
  ELSE IF size <= 128 THEN 6
  ELSE IF size <= 256 THEN 7
  ELSE IF size <= 512 THEN 8
  ELSE IF size <= 1024 THEN 9
  ELSE 0 - 1

get_object_size(size_class) ==
  IF size_class = 0 THEN 2
  ELSE IF size_class = 1 THEN 4
  ELSE 2^(size_class + 1)

\* returns the state with .ret = the new page, or NULL
create_page(s, object_size, at, fm) ==
  LET page == mmapResult(s, PAGE_SIZE, at) IN
  IF page = MAP_FAILED THEN RetOf(mmap(s, PAGE_SIZE, at), NULL)
  ELSE
    LET s0 == mmap(s, PAGE_SIZE, at)
        s1 == WrSize(s0, page, object_size, fm)
        available == PAGE_SIZE - A1_sizeof_page_header
        num_objects == available \div object_size
        s2 == WrSize(s1, page + 8, num_objects, fm)
        s3 == WrSize(s2, page + 16, num_objects, fm)
        s4 == WrPtr(s3, page + 24, NULL, fm)
        s5 == WrPtr(s4, page + 32, NULL, fm)
        obj_start == page + A1_sizeof_page_header
        s6 == WrLinks(s5, page, obj_start, object_size, num_objects, FALSE, fm)
        prev == IF num_objects > 0 THEN obj_start + (num_objects - 1) * object_size
                ELSE NULL
        s7 == WrPtr(s6, page + 32, prev, fm)
    IN RetOf(s7, page)

get_page_header(ptr) == (ptr \div PAGE_SIZE) * PAGE_SIZE

\* .ret = 1 when the page of ptr looks like a small page, else 0
is_small_allocation(s, ptr, fm) ==
  IF s.status # "ok" THEN s
  ELSE IF ptr = NULL THEN RetOf(s, 0)
  ELSE
    LET header == get_page_header(ptr) IN
    IF ~Accessible(s, header, A1_sizeof_page_header, fm) THEN Segv(s)
    ELSE
      LET object_size == DecSize(Rd8(s, header))
          num_objects == DecSize(Rd8(s, header + 8))
          free_count == DecSize(Rd8(s, header + 16))
          isPow2 == \E j \in 3..10 : object_size = 2^j
      IN IF /\ object_size >= MIN_SIZE
            /\ object_size <= MAX_SMALL_SIZE
            /\ num_objects > 0
            /\ num_objects <= PAGE_SIZE
            /\ free_count <= num_objects
            /\ (object_size = 2 \/ object_size = 4 \/ isPow2)
         THEN RetOf(s, 1)
         ELSE RetOf(s, 0)

\* the walk `while (page != NULL && page->free_count == 0) page = page->next;`
RECURSIVE A1_first_free(_, _, _, _)
A1_first_free(s, page, fm, fuel) ==
  IF page = NULL THEN RetOf(s, NULL)
  ELSE IF fuel = 0 THEN Hang(s)
  ELSE IF ~Accessible(s, page, A1_sizeof_page_header, fm) THEN Segv(s)
  ELSE IF Rd8(s, page + 16) # Zero8 THEN RetOf(s, page)
  ELSE A1_first_free(s, DecPtr(Rd8(s, page + 24)), fm, fuel - 1)

\* free_count as stored after adding d (modulo the width of size_t)
A1_count(s, page, d) ==
  LET c == DecSize(Rd8(s, page + 16)) IN
  IF c = HUGE THEN HUGE ELSE WrapSize(c + d + 2^SizeBits)

\* `block = page->free_list; page->free_list = block->next;
\*  page->free_count--; return block;`
A1_pop(s, page, fm) ==
  IF s.status # "ok" THEN s
  ELSE IF ~Accessible(s, page, A1_sizeof_page_header, fm) THEN Segv(s)
  ELSE Then(DecPtr(Rd8(s, page + 32)), LAMBDA block :
         IF ~Accessible(s, block, PtrSize, fm) THEN Segv(s)
         ELSE Then(Wr(s, page + 32, Rd8(s, block), fm), LAMBDA s1 :
                RetOf(WrSize(s1, page + 16, A1_count(s1, page, 0 - 1), fm), block)))

A1_malloc(s, size, at, fm) ==
  IF s.status # "ok" THEN s
  ELSE IF size = 0 THEN RetOf(s, NULL)
  ELSE IF size > MAX_SMALL_SIZE THEN
    LET total_size == WrapSize(size + A1_sizeof_large_header)
        num_pages == WrapSize(total_size + PAGE_SIZE - 1) \div PAGE_SIZE
        alloc_size == WrapSize(num_pages * PAGE_SIZE)
        memp == mmapResult(s, alloc_size, at)
    IN IF memp = MAP_FAILED THEN RetOf(mmap(s, alloc_size, at), NULL)
       ELSE
         LET s0 == mmap(s, alloc_size, at)
             s1 == WrSize(s0, memp, alloc_size, fm)
             s2 == Wr(s1, memp + 8, LARGE_ALLOC_MAGIC, fm)
         IN RetOf(s2, memp + A1_sizeof_large_header)
  ELSE
    LET size_class == get_size_class(size)
        object_size == get_object_size(size_class)
    IN Then(A1_first_free(s, s.heads[size_class], fm, Fuel), LAMBDA w :
         IF w.status # "ok" THEN w
         ELSE IF w.ret # NULL THEN A1_pop(w, w.ret, fm)
         ELSE
           Then(create_page(s, object_size, at, fm), LAMBDA c :
             IF c.status # "ok" \/ c.ret = NULL THEN c
             ELSE
               LET page == c.ret
                   c1 == WrPtr(c, page + 24, s.heads[size_class], fm)
               IN A1_pop(SetHead(c1, size_class, page), page, fm)))

\* a variation of A1_free: ptr is not tested for NULL
A1_free_unguarded(s, ptr, fm) ==
  IF s.status # "ok" THEN s
  ELSE
    Then(is_small_allocation(s, ptr, fm), LAMBDA k :
      IF k.status # "ok" THEN k
      ELSE IF k.ret = 1 THEN RetOf(s, NULL)
      ELSE
        LET header == ptr - A1_sizeof_large_header IN
        IF ~Accessible(s, header, A1_sizeof_large_header, fm) THEN Segv(s)
        ELSE IF Rd4(s, header + 8) = LARGE_ALLOC_MAGIC
             THEN RetOf(munmap(s, header, DecSize(Rd8(s, header))), NULL)
             ELSE RetOf(s, NULL))

A1_free(s, ptr, fm) ==
  IF s.status # "ok" THEN s
  ELSE IF ptr = NULL THEN RetOf(s, NULL)
  ELSE
    Then(is_small_allocation(s, ptr, fm), LAMBDA k :
      IF k.status # "ok" THEN k
      ELSE IF k.ret = 1 THEN
        LET page == get_page_header(ptr)
            s1 == Wr(s, ptr, Rd8(s, page + 32), fm)
            s2 == WrPtr(s1, page + 32, ptr, fm)
        IN Then(s2, LAMBDA t :
             RetOf(IF t.status = "ok"
                   THEN WrSize(t, page + 16, A1_count(t, page, 1), fm) ELSE t,
                   NULL))
      ELSE
        LET header == ptr - A1_sizeof_large_header IN
        IF ~Accessible(s, header, A1_sizeof_large_header, fm) THEN Segv(s)
        ELSE IF Rd4(s, header + 8) = LARGE_ALLOC_MAGIC
             THEN RetOf(munmap(s, header, DecSize(Rd8(s, header))), NULL)
             ELSE RetOf(s, NULL))

A1_calloc(s, nmemb, size, at, fm, bits) ==
  IF s.status # "ok" THEN s
  ELSE IF nmemb = 0 \/ size = 0 THEN RetOf(s, NULL)
  ELSE IF nmemb > SizeMax(bits) \div size THEN RetOf(s, NULL)
  ELSE
    LET total_size == Wrap(nmemb * size, bits) IN
    Then(A1_malloc(s, total_size, at, fm), LAMBDA m :
      IF m.status # "ok" \/ m.ret = NULL THEN m
      ELSE RetOf(memset0(m, m.ret, total_size, fm), m.ret))

A1_realloc(s, ptr, size, at, fm) ==
  IF s.status # "ok" THEN s
  ELSE IF ptr = NULL THEN A1_malloc(s, size, at, fm)
  ELSE IF size = 0 THEN RetOf(A1_free(s, ptr, fm), NULL)
  ELSE
    Then(is_small_allocation(s, ptr, fm), LAMBDA k :
      IF k.status # "ok" THEN k
      ELSE
        LET header == ptr - A1_sizeof_large_header IN
        IF k.ret = 0 /\ ~Accessible(s, header, A1_sizeof_large_header, fm) THEN Segv(s)
        ELSE IF k.ret = 0 /\ Rd4(s, header + 8) # LARGE_ALLOC_MAGIC
             THEN A1_malloc(s, size, at, fm)
        ELSE
          LET hsize == DecSize(Rd8(s, header)) IN
          Then(IF k.ret = 1 THEN DecSize(Rd8(s, get_page_header(ptr)))
               ELSE IF hsize = HUGE THEN HUGE
               ELSE WrapSize(hsize - A1_sizeof_large_header + 2^SizeBits),
               LAMBDA old_size :
            IF \/ /\ size <= MAX_SMALL_SIZE /\ old_size <= MAX_SMALL_SIZE
                  /\ get_size_class(old_size) = get_size_class(size)
               \/ /\ size > MAX_SMALL_SIZE /\ old_size > MAX_SMALL_SIZE
                  /\ size <= old_size
            THEN RetOf(s, ptr)
            ELSE
              Then(A1_malloc(s, size, at, fm), LAMBDA m :
                IF m.status # "ok" \/ m.ret = NULL THEN m
                ELSE
                  LET new_ptr == m.ret
                      copy_size == IF size < old_size THEN size ELSE old_size
                      c == memcpy(m, new_ptr, ptr, copy_size, fm)
                  IN RetOf(A1_free(c, ptr, fm), new_ptr))))

(* ========================================== build A2: allocator.c 283..559 *)
A2_sizeof_PageHeader == 24
A2_sizeof_LargeHeader == 16
A2_NLists == 11

\* `p = 1; while (p < size) p <<= 1;` in size_t arithmetic: when the shift
\* wraps p to 0 the loop never ends (HUGE stands for that)
RECURSIVE A2_round_from(_, _)
A2_round_from(p, size) ==
  IF p = 0 THEN HUGE
  ELSE IF p < size THEN A2_round_from(WrapSize(p * 2), size)
  ELSE p

roundPageSize(size) ==
  LET min == PtrSize IN A2_round_from(1, IF size < min THEN min ELSE size)

RECURSIVE A2_index_from(_, _, _)
A2_index_from(min, index, size) ==
  IF min < size /\ index < 10
  THEN A2_index_from(WrapSize(min * 2), index + 1, size)
  ELSE index

sizeToIndex(size) == A2_index_from(PtrSize, 0, size)

\* a variation of allocatePage: the page is made the head of its class
\* before the result of mmap is tested
allocatePage_unchecked(s, block_size, index, at, fm) ==
  LET page == mmapResult(s, PAGE_SIZE, at) IN
  IF page = MAP_FAILED THEN SetHead(mmap(s, PAGE_SIZE, at), index, WILD)
  ELSE SetHead(mmap(s, PAGE_SIZE, at), index, page)

allocatePage(s, block_size, index, at, fm) ==
  LET page == mmapResult(s, PAGE_SIZE, at) IN
  IF page = MAP_FAILED THEN mmap(s, PAGE_SIZE, at)
  ELSE
    LET s0 == mmap(s, PAGE_SIZE, at)
        s1 == WrSize(s0, page, block_size, fm)
        s2 == WrPtr(s1, page + 16, s.heads[index], fm)
        header_size == A2_sizeof_PageHeader
        usable_bytes == PAGE_SIZE - header_size
        blocks == usable_bytes \div block_size
    IN Then(SetHead(s2, index, page), LAMBDA s3 :
         IF blocks <= 0 THEN s3
         ELSE
           LET base == page + header_size
               s4 == WrPtr(s3, page + 8, base, fm)
               \* links 0..blocks-2 by the loop, then *last = NULL
               s5 == WrLinks(s4, page, base, block_size, blocks, TRUE, fm)
               last_ == base + (blocks - 1) * block_size
               old_list_head == s.flists[index]
               s6 == WrPtr(s5, last_, old_list_head, fm)
           IN SetFreeList(s6, index, base))

A2_malloc(s, size0, at, fm) ==
  IF s.status # "ok" THEN s
  ELSE
    LET size == IF size0 = 0 THEN 1 ELSE size0 IN
    IF size <= MAX_SMALL THEN
      Then(roundPageSize(size), LAMBDA block_size :
        Then(sizeToIndex(block_size), LAMBDA index :
          Then(IF s.flists[index] = NULL
               THEN allocatePage(s, block_size, index, at, fm) ELSE s, LAMBDA a :
            IF a.status # "ok" THEN a
            ELSE IF a.flists[index] = NULL THEN RetOf(a, NULL)
            ELSE
              LET block == a.flists[index] IN
              IF ~Accessible(a, block, PtrSize, fm) THEN Segv(a)
              ELSE RetOf([a EXCEPT !.flists[index] = DecPtr(Rd8(a, block))], block))))
    ELSE
      LET total_size == WrapSize(A2_sizeof_LargeHeader + size)
          mmap_size == (WrapSize(total_size + PAGE_SIZE - 1) \div PAGE_SIZE) * PAGE_SIZE
          memp == mmapResult(s, mmap_size, at)
      IN IF memp = MAP_FAILED THEN RetOf(mmap(s, mmap_size, at), NULL)
         ELSE
           LET s0 == mmap(s, mmap_size, at)
               s1 == WrSize(s0, memp, size, fm)
               s2 == WrSize(s1, memp + 8, mmap_size, fm)
           IN RetOf(s2, memp + A2_sizeof_LargeHeader)

A2_free(s, ptr, fm) ==
  IF s.status # "ok" THEN s
  ELSE IF ptr = NULL THEN RetOf(s, NULL)
  ELSE
    LET address_page == (ptr \div PAGE_SIZE) * PAGE_SIZE IN
    IF ~Accessible(s, address_page, PtrSize, fm) THEN Segv(s)
    ELSE
      Then(DecSize(Rd8(s, address_page)), LAMBDA block_size :
      IF block_size > 0 /\ block_size <= MAX_SMALL THEN
        Then(sizeToIndex(block_size), LAMBDA index :
          RetOf(SetFreeList(WrPtr(s, ptr, s.flists[index], fm), index, ptr), NULL))
      ELSE
        LET large_block == ptr - A2_sizeof_LargeHeader IN
        IF ~Accessible(s, large_block, A2_sizeof_LargeHeader, fm) THEN Segv(s)
        ELSE LET mmap_size == DecSize(Rd8(s, large_block + 8)) IN
             IF mmap_size > 0 THEN RetOf(munmap(s, large_block, mmap_size), NULL)
             ELSE RetOf(s, NULL))

A2_calloc(s, mem_block, size, at, fm, bits) ==
  IF s.status # "ok" THEN s
  ELSE
    LET total == Wrap(mem_block * size, bits) IN
    Then(A2_malloc(s, total, at, fm), LAMBDA m :
      IF m.status # "ok" \/ m.ret = NULL THEN m
      ELSE RetOf(memset0(m, m.ret, total, fm), m.ret))

A2_realloc(s, ptr, size, at, fm) ==
  IF s.status # "ok" THEN s
  ELSE IF ptr = NULL THEN A2_malloc(s, size, at, fm)
  ELSE IF size = 0 THEN RetOf(A2_free(s, ptr, fm), NULL)
  ELSE
    Then(A2_malloc(s, size, at, fm), LAMBDA m :
      IF m.status # "ok" \/ m.ret = NULL THEN m
      ELSE
        LET newptr == m.ret
            page_addr == (ptr \div PAGE_SIZE) * PAGE_SIZE
        IN IF ~Accessible(m, page_addr, PtrSize, fm) THEN Segv(m)
           ELSE
             Then(DecSize(Rd8(m, page_addr)), LAMBDA block_size :
               LET isSmall == block_size > 0 /\ block_size <= MAX_SMALL IN
               IF ~isSmall /\ ~Accessible(m, ptr - A2_sizeof_LargeHeader, PtrSize, fm)
               THEN Segv(m)
               ELSE
                 Then(IF isSmall THEN block_size
                      ELSE DecSize(Rd8(m, ptr - A2_sizeof_LargeHeader)), LAMBDA old_size0 :
                   LET old_size == IF size < old_size0 THEN size ELSE old_size0
                       c == memcpy(m, newptr, ptr, old_size, fm)
                   IN RetOf(A2_free(c, ptr, fm), newptr))))

(* ============================================================ the machine *)
S == [mem |-> mem, img |-> img, own |-> own, heads |-> heads, flists |-> flists,
      lhead |-> lhead, status |-> status, ret |-> NULL, nmap |-> 0, nunmap |-> 0]

ApplyShared(r) ==
  /\ mem' = r.mem
  /\ img' = r.img
  /\ own' = r.own
  /\ heads' = r.heads
  /\ flists' = r.flists
  /\ lhead' = r.lhead
  /\ status' = r.status

Apply(r) ==
  /\ ApplyShared(r)
  /\ thr' = thr

\* the four entry points of the build that runs
malloc_(v, s, size, at, fm) ==
  CASE v = "P2" -> P2_malloc(s, size, at, fm)
    [] v = "A1" -> A1_malloc(s, size, at, fm)
    [] v = "A2" -> A2_malloc(s, size, at, fm)

free_(v, s, ptr, fm) ==
  CASE v = "P2" -> P2_free(s, ptr, fm)
    [] v = "A1" -> A1_free(s, ptr, fm)
    [] v = "A2" -> A2_free(s, ptr, fm)

calloc_(v, s, nmemb, size, at, fm, bits) ==
  CASE v = "P2" -> P2_calloc(s, nmemb, size, at, fm, bits)
    [] v = "A1" -> A1_calloc(s, nmemb, size, at, fm, bits)
    [] v = "A2" -> A2_calloc(s, nmemb, size, at, fm, bits)

realloc_(v, s, ptr, size, at, fm) ==
  CASE v = "P2" -> P2_realloc(s, ptr, size, at, fm)
    [] v = "A1" -> A1_realloc(s, ptr, size, at, fm)
    [] v = "A2" -> A2_realloc(s, ptr, size, at, fm)

\* what the client passes
MallocSizes == {0, 2, 1024, 1025}
ReallocSizes == {0, 512, 600, 1024, 1025, 5000}
\* the last two products do not fit size_t: they wrap to 0 and to 1
CallocArgs == {<<0, 4>>, <<4, 0>>, <<2, 512>>,
               <<2, 2^(SizeBits - 1)>>, <<3, (2^SizeBits) \div 3 + 1>>}

\* sizeof the header in front of a large region's user pointer
LargeHeaderSize(v) ==
  CASE v = "P2" -> P2_sizeof_large_block_header
    [] v = "A1" -> A1_sizeof_large_header
    [] v = "A2" -> A2_sizeof_LargeHeader

PageHeaderSize(v) ==
  CASE v = "P2" -> ((P2_sizeof_page_metadata + ALIGN - 1) \div ALIGN) * ALIGN
    [] v = "A1" -> A1_sizeof_page_header
    [] v = "A2" -> A2_sizeof_PageHeader

\* the block size the build serves a small request of n bytes from
SmallCap(v, n) ==
  CASE v = "P2" -> class_to_size(size_to_class(n))
    [] v = "A1" -> get_object_size(get_size_class(n))
    [] v = "A2" -> roundPageSize(IF n = 0 THEN 1 ELSE n)

\* the capacity of the block that answered a request of n bytes: the block
\* size of its class, or what was mapped for it less the region header
CapOf(r, n) ==
  IF n <= MAX_SMALL_SIZE THEN SmallCap(variant, n)
  ELSE Cardinality({k \in r.own : k \notin own}) * PAGE_SIZE - LargeHeaderSize(variant)

\* a pointer the client holds: the block of p has capacity c; k counts the
\* holders of p before this one (0 unless the allocator issued p twice)
Entry(held, p, c) ==
  [p |-> p, c |-> c, k |-> Cardinality({e \in held : e.p = p})]

Issue(held, r, n) ==
  IF r.status = "ok" /\ r.ret # NULL
  THEN held \cup {Entry(held, r.ret, CapOf(r, n))}
  ELSE held

\* one call as the client saw it: the entry point, its arguments (p with the
\* capacity c of its block), how it ended, what it returned, and how often
\* it called mmap and munmap
Call(op, p, c, n, m, r) ==
  [op |-> op, p |-> p, c |-> c, n |-> n, m |-> m, st |-> r.status,
   ret |-> IF r.status = "ok" THEN r.ret ELSE NULL,
   nmap |-> r.nmap, nunmap |-> r.nunmap]

NoCall ==
  [op |-> "init", p |-> NULL, c |-> 0, n |-> 0, m |-> 0, st |-> "ok",
   ret |-> NULL, nmap |-> 0, nunmap |-> 0]


\* the state of a process that has not called the allocator yet
Fresh ==
  [mem |-> << >>, img |-> << >>, own |-> {},
   heads |-> [i \in 0..(A2_NLists - 1) |-> NULL],
   flists |-> [i \in 0..(A2_NLists - 1) |-> NULL],
   lhead |-> NULL, status |-> "ok", ret |-> NULL, nmap |-> 0, nunmap |-> 0]

\* the state a call left, as the next call finds it
Settled(r) == [r EXCEPT !.ret = NULL, !.nmap = 0, !.nunmap = 0]

\* the bytes the client writes into a block of capacity c at p
MarkOffsets(c) == {o \in {0, 1, 7, 599, 1023, 1024, c - 1} : o >= 0 /\ o < c}
MarkByte(p, o) == 1 + ((p + 3 * o) % 251)
Marks(p, c) == [x \in {p + o : o \in MarkOffsets(c)} |-> MarkByte(p, x - p)]

\* A process that has been running for a while: five calls of malloc(1024)
\* (the first three fill a page at slot 1, the fourth provisions a second
\* page at slot 2), the client writes into the last two blocks, and the
\* last one is released with its data still in it.
WarmWrite(s, p) == [s EXCEPT !.mem = Store(s, Marks(p, MAX_SMALL_SIZE))]

Warm(v) ==
  Then(malloc_(v, Fresh, MAX_SMALL_SIZE, 1, FALSE), LAMBDA r1 :
  Then(malloc_(v, Settled(r1), MAX_SMALL_SIZE, 0, FALSE), LAMBDA r2 :
  Then(malloc_(v, Settled(r2), MAX_SMALL_SIZE, 0, FALSE), LAMBDA r3 :
  Then(malloc_(v, Settled(r3), MAX_SMALL_SIZE, 2, FALSE), LAMBDA r4 :
  Then(malloc_(v, Settled(r4), MAX_SMALL_SIZE, 0, FALSE), LAMBDA r5 :
  Then(free_(v, Settled(WarmWrite(WarmWrite(r5, r4.ret), r5.ret)), r5.ret, FALSE),
       LAMBDA r6 :
    [s |-> Settled(r6),
     live |-> {[p |-> r.ret, c |-> MAX_SMALL_SIZE, k |-> 0] : r \in {r1, r2, r3, r4}},
     last |-> Call("free", r5.ret, MAX_SMALL_SIZE, 0, 0, r6)]))))))

\* a run starts in a fresh process, or continues one that has been running
Init ==
  /\ variant \in Variants
  /\ \E warm \in BOOLEAN :
       \E w \in {IF warm THEN Warm(variant)
                 ELSE [s |-> Fresh, live |-> {}, last |-> NoCall]} :
          /\ mem = w.s.mem
          /\ img = w.s.img
          /\ own = w.s.own
          /\ heads = w.s.heads
          /\ flists = w.s.flists
          /\ lhead = w.s.lhead
          /\ status = w.s.status
          /\ live = w.live
          /\ last = w.last
          /\ calls = IF warm THEN 1 ELSE 0
  /\ thr = [t \in Threads |-> Idle]

\* every step is one call of a running process, within the bounds
Running == status = "ok" /\ calls < MaxCalls

\* The environment of one call: at, the slot where the kernel would place a
\* mapping (0: it refuses), and fm, whether something else is mapped around
\* the allocator's pages.  run(at, fm) is the call.  The place only matters
\* to a call that maps, fm only to one that leaves the allocator's pages.
Envs(run(_, _)) ==
  LET ats == IF run(0, FALSE).nmap = 0 THEN {0}
             ELSE {0} \cup {k \in 1..NSlots : k \notin own}
  IN {x \in ats \X BOOLEAN : x[2] => run(x[1], FALSE).status = "segv"}

\* what the call can come to
Results(run(_, _)) == {run(x[1], x[2]) : x \in Envs(run)}

Malloc(n) ==
  /\ Running
  /\ Cardinality(live) < MaxLive
  /\ LET run(at, fm) == malloc_(variant, S, n, at, fm) IN
     \E r \in Results(run) :
       /\ Apply(r)
       /\ live' = Issue(live, r, n)
       /\ last' = Call("malloc", NULL, 0, n, 0, r)
       /\ calls' = calls + 1
  /\ UNCHANGED variant

Calloc(nmemb, size) ==
  /\ Running
  /\ Cardinality(live) < MaxLive
  /\ LET run(at, fm) == calloc_(variant, S, nmemb, size, at, fm, SizeBits) IN
     \E r \in Results(run) :
       /\ Apply(r)
       /\ live' = Issue(live, r, WrapSize(nmemb * size))
       /\ last' = Call("calloc", NULL, 0, nmemb, size, r)
       /\ calls' = calls + 1
  /\ UNCHANGED variant

\* free(e.p) of a pointer the client holds
Free(e) ==
  /\ Running
  /\ e \in live
  /\ LET run(at, fm) == free_(variant, S, e.p, fm) IN
     \E r \in Results(run) :
       /\ Apply(r)
       /\ live' = live \ {e}
       /\ last' = Call("free", e.p, e.c, 0, 0, [r EXCEPT !.ret = NULL])
       /\ calls' = calls + 1
  /\ UNCHANGED variant

\* free(NULL)
FreeNull ==
  /\ Running
  /\ LET run(at, fm) == free_(variant, S, NULL, fm) IN
     \E r \in Results(run) :
       /\ Apply(r)
       /\ live' = live
       /\ last' = Call("free", NULL, 0, 0, 0, [r EXCEPT !.ret = NULL])
       /\ calls' = calls + 1
  /\ UNCHANGED variant

\* realloc(e.p, n) of a pointer the client holds
Realloc(e, n) ==
  /\ Running
  /\ e \in live
  /\ LET run(at, fm) == realloc_(variant, S, e.p, n, at, fm)
         rest == live \ {e}
     IN \E r \in Results(run) :
       /\ Apply(r)
       /\ live' = IF r.status # "ok" THEN live
                  ELSE IF n = 0 THEN rest
                  ELSE IF r.ret = NULL THEN live
                  ELSE IF r.ret = e.p THEN rest \cup {Entry(rest, e.p, e.c)}
                  ELSE Issue(rest, r, n)
       /\ last' = Call("realloc", e.p, e.c, n, 0, r)
       /\ calls' = calls + 1
  /\ UNCHANGED variant

\* realloc(NULL, n)
ReallocNull(n) ==
  /\ Running
  /\ Cardinality(live) < MaxLive
  /\ LET run(at, fm) == realloc_(variant, S, NULL, n, at, fm) IN
     \E r \in Results(run) :
       /\ Apply(r)
       /\ live' = Issue(live, r, n)
       /\ last' = Call("realloc", NULL, 0, n, 0, r)
       /\ calls' = calls + 1
  /\ UNCHANGED variant

\* the client writes into a block it holds, within the block's capacity
UserWrite(e) ==
  /\ Running
  /\ e \in live
  /\ mem' = Store(S, Marks(e.p, e.c))
  /\ mem' # mem
  /\ last' = [NoCall EXCEPT !.op = "write", !.p = e.p, !.c = e.c]
  /\ calls' = calls + 1
  /\ UNCHANGED <<variant, img, own, heads, flists, lhead, status, live, thr>>

Next ==
  \/ \E n \in MallocSizes : Malloc(n)
  \/ \E a \in CallocArgs : Calloc(a[1], a[2])
  \/ \E e \in live : Free(e)
  \/ FreeNull
  \/ \E e \in live, n \in ReallocSizes : Realloc(e, n)
  \/ \E n \in MallocSizes : ReallocNull(n)
  \/ \E e \in live : UserWrite(e)

Spec == Init /\ [][Next]_vars

\* calloc on a machine whose size_t has CallocBits bits, for every pair of
\* operands of that width, as the first call of a run
CallocNarrow(nmemb, size) ==
  /\ status = "ok"
  /\ last.op \in {"init", "free"}
  /\ LET run(at, fm) == calloc_(variant, S, nmemb, size, at, fm, CallocBits) IN
     \E r \in Results(run) :
       /\ Apply(r)
       /\ live' = Issue(live, r, Wrap(nmemb * size, CallocBits))
       /\ last' = Call("calloc", NULL, 0, nmemb, size, r)
       /\ calls' = calls + 1
  /\ UNCHANGED variant

NextCalloc == \E nmemb, size \in 0..SizeMax(CallocBits) : CallocNarrow(nmemb, size)

SpecCalloc == Init /\ [][NextCalloc]_vars

\* Pointers the client must not release: the block the last call released
\* (by free, or by a realloc that moved it), an address inside a small block
\* it holds, and an address of a page the allocator never owned.
WildPtr == (NSlots + 1) * PAGE_SIZE + 64

Released ==
  IF last.op \in {"free", "badfree"} /\ last.p # NULL THEN {last.p}
  ELSE IF last.op = "realloc" /\ last.p # NULL /\ last.st = "ok"
          /\ (last.n = 0 \/ (last.ret # NULL /\ last.ret # last.p))
       THEN {last.p}
  ELSE {}

Inside == {e.p + 8 : e \in {x \in live : x.c >= 16 /\ x.c <= MAX_SMALL_SIZE}}

InvalidPtrs == {p \in Released \cup Inside \cup {WildPtr} : \A e \in live : e.p # p}

\* free(p) of a pointer that is not the client's to release (last.c: the
\* capacity p's block had when p was released by the call before, else 0)
FreeInvalid(p) ==
  /\ Running
  /\ p \in InvalidPtrs
  /\ LET run(at, fm) == free_(variant, S, p, fm) IN
     \E r \in Results(run) :
       /\ Apply(r)
       /\ live' = live
       /\ last' = Call("badfree", p, IF p \in Released THEN last.c ELSE 0, 0, 0,
                       [r EXCEPT !.ret = NULL])
       /\ calls' = calls + 1
  /\ UNCHANGED variant

\* a client that also releases what it must not
NextMisuse ==
  \/ \E n \in MallocSizes : Malloc(n)
  \/ \E e \in live : Free(e)
  \/ \E p \in InvalidPtrs : FreeInvalid(p)

SpecMisuse == Init /\ [][NextMisuse]_vars

\* the classifier of the build that runs: the class of a request of n bytes
\* (LARGE when it goes to a region of its own), and the block size of class i
LARGE == 0 - 1

classify_(v, n) ==
  CASE v = "P2" -> size_to_class(n)
    [] v = "A1" -> get_size_class(n)
    [] v = "A2" -> IF n <= MAX_SMALL THEN sizeToIndex(roundPageSize(n)) ELSE LARGE

size_of_(v, i) ==
  CASE v = "P2" -> class_to_size(i)
    [] v = "A1" -> get_object_size(i)
    [] v = "A2" -> roundPageSize(PtrSize * 2^i)

\* the largest request the classifier is run on
MaxRequest == 1100

\* the classifier run on a request of n bytes: last.ret is the class, last.c
\* the block size of that class
Classify(n) ==
  /\ last.op # "classify"
  /\ \E i \in {classify_(variant, n)} :
       last' = [NoCall EXCEPT !.op = "classify", !.n = n, !.ret = i,
                              !.c = IF i = LARGE THEN 0 ELSE size_of_(variant, i)]
  /\ calls' = calls + 1
  /\ UNCHANGED <<variant, mem, img, own, heads, flists, lhead, status, live, thr>>

NextClassify == \E n \in 0..MaxRequest : Classify(n)

SpecClassify == Init /\ [][NextClassify]_vars

TypeOK == status \in {"ok", "segv", "hang"}

(* ================================================================ claims *)
\* [a, a + n) and [b, b + m) share a byte
Overlap(a, n, b, m) == n > 0 /\ m > 0 /\ a < b + m /\ b < a + n

\* the slots that hold a page of small cells
SmallPages == DOMAIN img

\* a block the client holds is a large region's
IsLarge(e) == e.c > MAX_SMALL_SIZE

Min(a, b) == IF a < b THEN a ELSE b

\* the step is a call realloc(p, n) of a live p with n > 0 that returned
ResizeStep ==
  /\ calls' = calls + 1
  /\ last'.op = "realloc" /\ last'.p # NULL /\ last'.n > 0
  /\ last'.st = "ok"

\* C2 (resize preservation): when q = realloc(p, n), for a live p of capacity
\* c and n > 0, is not null, the first min(c, n) bytes of q are the bytes p
\* held just before the call.
C2_ResizePreserves ==
  [][ResizeStep /\ last'.ret # NULL =>
        \A o \in 0..(Min(last'.c, last'.n) - 1) :
           Byte(S', last'.ret + o) = Byte(S, last'.p + o)]_vars

\* a written block was resized and moved
C2_Witness ==
  /\ last.op = "realloc" /\ last.p # NULL /\ last.n > 0 /\ last.st = "ok"
  /\ last.ret # NULL /\ last.ret # last.p
  /\ \E o \in MarkOffsets(Min(last.c, last.n)) :
        Byte(S, last.ret + o) = MarkByte(last.p, o)

\* the byte at a is mapped by the allocator and holds 0
ReadsZero(a) == SlotOf(a) \in own /\ Byte(S, a) = 0

\* C3 (zeroing): every byte of [0, k * m) of a pointer that calloc(k, m)
\* returned reads 0, also when the cell held the client's data and a link.
C3_Zeroed ==
  (status = "ok" /\ last.op = "calloc" /\ last.ret # NULL) =>
     \A o \in 0..(last.n * last.m - 1) : ReadsZero(last.ret + o)

\* what the allocator keeps, and what the client holds
AllocState == <<mem, img, own, heads, flists, lhead, status>>

\* the step is a call of calloc
CallocStep == calls' = calls + 1 /\ last'.op = "calloc"

\* C4 (calloc's rejections, at a width of CallocBits): calloc(k, m) returns
\* NULL without calling malloc and without changing the allocator's state
\* whenever k = 0, m = 0 or the true product k * m exceeds the largest value
\* of the width; and it rejects no other pair (it calls malloc for it).
C4_CallocRejects ==
  [][CallocStep =>
       LET k == last'.n
           m == last'.m
           big == k * m > SizeMax(CallocBits)
       IN /\ (k = 0 \/ m = 0 \/ big) =>
               /\ last'.st = "ok" /\ last'.ret = NULL /\ last'.nmap = 0
               /\ UNCHANGED <<AllocState, live>>
          /\ (k # 0 /\ m # 0 /\ ~big) =>
               (last'.ret # NULL \/ last'.nmap > 0 \/ last'.st # "ok")]_vars

\* a request of n bytes fits the block of capacity c and is of its class,
\* or the block is a large region and so is the request
FastCase(c, n) ==
  /\ n > 0 /\ n <= c
  /\ \/ c <= MAX_SMALL_SIZE /\ SmallCap(variant, n) = c
     \/ c > MAX_SMALL_SIZE /\ n > MAX_SMALL_SIZE

\* C5 (resize fast path): realloc(p, n) of a live p whose block fits n and
\* is of n's class (or is a large region, with n large) returns p and
\* leaves the allocator's state as it was: nothing is allocated, copied or
\* released.
C5_FastPath ==
  [][(calls' = calls + 1 /\ last'.op = "realloc" /\ last'.p # NULL
        /\ FastCase(last'.c, last'.n)) =>
       /\ last'.st = "ok" /\ last'.ret = last'.p
       /\ last'.nmap = 0 /\ last'.nunmap = 0
       /\ UNCHANGED <<AllocState, live>>]_vars

\* the bytes a call asked for: malloc(n), calloc(n, m), realloc(NULL, n)
Asked(c) == IF c.op = "calloc" THEN WrapSize(c.n * c.m) ELSE c.n

\* the call c is an allocation (not a resize of a block) served from the
\* class whose cells have b bytes
AllocOfClass(c, b) ==
  /\ c.op \in {"malloc", "calloc", "realloc"} /\ c.p = NULL
  /\ Asked(c) >= 1 /\ Asked(c) <= MAX_SMALL_SIZE
  /\ SmallCap(variant, Asked(c)) = b

\* the call c released a small cell
FreedSmall(c) ==
  c.op = "free" /\ c.st = "ok" /\ c.p # NULL /\ c.c <= MAX_SMALL_SIZE

\* C6 (LIFO reuse within a class): when a live small cell p was released and
\* the next call is an allocation of p's class, that allocation returns p,
\* however many pages the class owns.
C6_Lifo ==
  [][(calls' = calls + 1 /\ FreedSmall(last) /\ AllocOfClass(last', last.c)) =>
        (last'.st = "ok" /\ last'.ret = last.p)]_vars

\* everything the allocator keeps in the state record s
Kept(s) == <<s.mem, s.img, s.own, s.heads, s.flists, s.lhead>>

\* the step is p = malloc(n) for a small n, and it returned a cell
SmallMallocStep ==
  /\ calls' = calls + 1
  /\ last'.op = "malloc" /\ last'.n >= 1 /\ last'.n <= MAX_SMALL_SIZE
  /\ last'.st = "ok" /\ last'.ret # NULL

\* free(p) and then malloc(n) from the state s1, both in the environment fm
RoundTrip(s1, p, n, fm) ==
  LET r2 == free_(variant, s1, p, fm) IN
  [freed |-> r2, again |-> malloc_(variant, Settled(r2), n, 0, fm)]

\* the round trip gave p again and, when the first malloc took a cell of an
\* existing page, free(p) restored the state s0 of before that malloc
RoundTripOk(rt, s0, p, fresh) ==
  /\ rt.again.status = "ok" => rt.again.ret = p
  /\ (rt.freed.status = "ok" /\ ~fresh) => Kept(rt.freed) = Kept(s0)

\* C7 (small round trip): after p = malloc(n), 1 <= n <= 1024, the calls
\* free(p) and q = malloc(n) give q = p; and when the first malloc mapped no
\* new page, free(p) puts the allocator back into the state it had before
\* that malloc (every free list as it was).
C7_RoundTrip ==
  [][SmallMallocStep =>
       \A rt \in {RoundTrip(S', last'.ret, last'.n, FALSE)} :
          /\ RoundTripOk(rt, S, last'.ret, last'.nmap > 0)
          /\ rt.again.status = "segv" =>
               \A rt2 \in {RoundTrip(S', last'.ret, last'.n, TRUE)} :
                  RoundTripOk(rt2, S, last'.ret, last'.nmap > 0)]_vars

\* C8 (zero-byte request): malloc(0) returns NULL and changes nothing: no
\* page is provisioned, no cell leaves a free list, nothing is mapped.
C8_MallocZero ==
  [][(calls' = calls + 1 /\ last'.op = "malloc" /\ last'.n = 0) =>
       /\ last'.st = "ok" /\ last'.ret = NULL /\ last'.nmap = 0
       /\ UNCHANGED <<AllocState, live>>]_vars

\* the call that made the step ended as r does: same return value, same
\* allocator state, same calls of mmap and munmap
SameOutcome(r) ==
  /\ last'.st = r.status
  /\ last'.ret = (IF r.status = "ok" THEN r.ret ELSE NULL)
  /\ last'.nmap = r.nmap /\ last'.nunmap = r.nunmap
  /\ Kept(S') = Kept(r)

\* C9 (degenerate resize): realloc(NULL, n) returns what malloc(n) returns
\* and leaves the state malloc(n) leaves; realloc(p, 0) of a live p returns
\* NULL and leaves the state free(p) leaves.
C9_Degenerate ==
  [][(calls' = calls + 1 /\ last'.op = "realloc") =>
       /\ last'.p = NULL =>
            \E at \in 0..NSlots, fm \in BOOLEAN :
               SameOutcome(malloc_(variant, S, last'.n, at, fm))
       /\ (last'.p # NULL /\ last'.n = 0) =>
            /\ last'.ret = NULL
            /\ \E fm \in BOOLEAN :
                  SameOutcome(RetOf(free_(variant, S, last'.p, fm), NULL))]_vars

\* realloc(p, 0) released a large region that the client had written to
C9_Witness ==
  /\ last.op = "realloc" /\ last.p # NULL /\ last.n = 0 /\ last.st = "ok"
  /\ last.c > MAX_SMALL_SIZE /\ last.nunmap = 1
  /\ live # {}

\* C10 (failed resize): when realloc(p, n) of a live p, n > 0, needs a new
\* block and cannot get one, it returns NULL and leaves everything as it
\* was: p is still held, on no free list, mapped, in the large list if it is
\* a large region, and its bytes are unchanged.
C10_FailedResize ==
  [][(ResizeStep /\ last'.ret = NULL) =>
       /\ last'.nmap > 0
       /\ UNCHANGED <<AllocState, live>>]_vars

\* a resize of a written block failed for want of memory
C10_Witness ==
  /\ last.op = "realloc" /\ last.p # NULL /\ last.n > 0 /\ last.st = "ok"
  /\ last.ret = NULL /\ last.nmap > 0
  /\ \E e \in live : e.p = last.p /\ Byte(S, e.p) = MarkByte(e.p, 0)
\* the step is a call that allocates: malloc(n), calloc(k, m), realloc(NULL, n)
AllocStep ==
  /\ calls' = calls + 1
  /\ last'.op \in {"malloc", "calloc", "realloc"} /\ last'.p = NULL

\* the call asked the kernel for memory and got none: mmap was called and no
\* page joined the address space
MapFailed == last'.nmap > 0 /\ own' \subseteq own

\* C11 (out of memory): when mmap fails during an allocation (a page for a
\* small request, a region for a large one), the call returns NULL and the
\* heads of the classes, every free list, the large list and every byte of
\* memory are as before the call.
C11_OutOfMemory ==
  [][(AllocStep /\ MapFailed) =>
       /\ last'.st = "ok" /\ last'.ret = NULL
       /\ UNCHANGED <<AllocState, live>>]_vars

\* a large request failed for want of memory in a process that holds
\* blocks and owns pages of small cells
C11_Witness ==
  /\ last.op = "malloc" /\ last.st = "ok" /\ last.ret = NULL /\ last.nmap > 0
  /\ last.n > MAX_SMALL_SIZE
  /\ live # {} /\ SmallPages # {}

\* the step is a call free(NULL)
FreeNullStep == calls' = calls + 1 /\ last'.op = "free" /\ last'.p = NULL

\* C12 (release of null): free(NULL) returns, calls neither mmap nor munmap
\* and leaves the allocator's state and the client's blocks as they were, in
\* every state a running process reaches and also right after another
\* free(NULL).
C12_FreeNull ==
  [][FreeNullStep =>
       /\ last'.st = "ok" /\ last'.nmap = 0 /\ last'.nunmap = 0
       /\ UNCHANGED <<AllocState, live>>]_vars

\* free(NULL) was the last of the calls of a process that holds blocks, one
\* of them a large region
C12_Witness ==
  /\ last.op = "free" /\ last.p = NULL /\ last.st = "ok"
  /\ calls = MaxCalls
  /\ \E e \in live : IsLarge(e)

\* C13 (classifier): for 1 <= n <= 1024 the class of n is the least index i
\* of 0..9 with 2^(i+1) >= n, it is not below the class of n - 1 (so the
\* classifier is monotone), and the block size of the class is at least n;
\* class i has blocks of 2^(i+1) bytes for every i of 0..9; and for n >= 1
\* the class is LARGE exactly when n > 1024.
C13_Classifier ==
  last.op = "classify" =>
    /\ (last.n >= 1 /\ last.n <= MAX_SMALL_SIZE) =>
         /\ last.ret \in 0..(NUM_SIZE_CLASSES - 1)
         /\ 2^(last.ret + 1) >= last.n
         /\ \A i \in 0..(NUM_SIZE_CLASSES - 1) : 2^(i + 1) >= last.n => last.ret <= i
         /\ last.n >= 2 => classify_(variant, last.n - 1) <= last.ret
         /\ last.c >= last.n
    /\ last.n >= 1 => (last.ret = LARGE <=> last.n > MAX_SMALL_SIZE)
    /\ \A i \in 0..(NUM_SIZE_CLASSES - 1) : size_of_(variant, i) = 2^(i + 1)

\* the step is a call free(p) of a pointer that is not the client's to release
BadFreeStep == calls' = calls + 1 /\ last'.op = "badfree"

\* C14 (invalid release is ignored): free(p) of a non-null p that the
\* allocator never issued, or that was released already, returns without
\* calling munmap and leaves every free list, every page list, the large
\* list and memory as they were.
C14_InvalidIgnored ==
  [][BadFreeStep =>
       /\ last'.st = "ok" /\ last'.nunmap = 0
       /\ UNCHANGED <<AllocState, live>>]_vars

\* the page of an address
PageOf(a) == (a \div PAGE_SIZE) * PAGE_SIZE

\* the slots of the region mapped for the large block e
RegionSlots(e) ==
  SlotOf(e.p - LargeHeaderSize(variant))..SlotOf(e.p + e.c - 1)

\* the stored bytes of the pages of small cells, and of everything else
SmallMem(s) ==
  [x \in {a \in DOMAIN s.mem : SlotOf(a) \in DOMAIN s.img} |-> s.mem[x]]
LargeMem(s) ==
  [x \in {a \in DOMAIN s.mem : SlotOf(a) \notin DOMAIN s.img} |-> s.mem[x]]

\* the regions on the large list of part_002, from the node large on
RECURSIVE LargeFrom(_, _, _)
LargeFrom(s, large, fuel) ==
  IF large = NULL \/ large < 0 \/ fuel = 0 \/ SlotOf(large) \notin s.own THEN << >>
  ELSE <<large>> \o LargeFrom(s, DecPtr(Rd8(s, large + 8)), fuel - 1)

LargeList(s) == LargeFrom(s, s.lhead, Fuel)

\* the head of the free list that takes the cell p of a block size of c
\* bytes: the list of p's page (part_002, allocator.c 1..282) or the list of
\* the class (allocator.c 283..559)
FreeListHead(s, p, c) ==
  CASE variant = "P2" -> DecPtr(Rd8(s, PageOf(p) + 16))
    [] variant = "A1" -> DecPtr(Rd8(s, PageOf(p) + 32))
    [] variant = "A2" -> s.flists[sizeToIndex(c)]

\* the step is a call free(p) of a block the client holds
FreeStep == calls' = calls + 1 /\ last'.op = "free" /\ last'.p # NULL

\* C15 (classification on release): free(p) of a held large block unmaps
\* exactly the pages of its region, takes it off the large list and leaves
\* the pages of small cells, their images, the class heads and the free
\* lists as they were; free(p) of a held small cell makes p the head of a
\* free list and neither unmaps anything nor changes the large list or a
\* byte outside the pages of small cells.
C15_ReleaseKind ==
  [][FreeStep =>
       /\ last'.st = "ok"
       /\ last'.c > MAX_SMALL_SIZE =>
            /\ last'.nunmap = 1
            /\ own' = own \ RegionSlots(last')
            /\ heads' = heads /\ flists' = flists /\ img' = img
            /\ SmallMem(S') = SmallMem(S)
            /\ \A i \in 1..Len(LargeList(S')) :
                 LargeList(S')[i] # last'.p - LargeHeaderSize(variant)
       /\ last'.c <= MAX_SMALL_SIZE =>
            /\ last'.nunmap = 0 /\ own' = own
            /\ lhead' = lhead
            /\ LargeMem(S') = LargeMem(S)
            /\ FreeListHead(S', last'.p, last'.c) = last'.p]_vars
\* ---- free lists as the links in memory give them
\* A list is read as a sequence of segments [k, lo, hi, cell, loop]: cell is
\* the address the walk came to; when it is a cell of the small page at slot
\* k, lo..hi are the indexes of the cells the walk passes from there up to
\* the next cell whose link was stored over since the page was made (the
\* untouched links of a page are those of its image); for an address that
\* is no cell, lo..hi is empty; loop marks a walk that did not end.
SetMin(Q) == CHOOSE x \in Q : \A y \in Q : x <= y
SetMax(Q) == CHOOSE x \in Q : \A y \in Q : x >= y

\* a is the address of a cell of a page of small cells
IsCell(s, a) ==
  /\ SlotOf(a) \in DOMAIN s.img
  /\ \A d \in {s.img[SlotOf(a)]} :
       a >= d.area /\ (a - d.area) % d.stride = 0 /\ (a - d.area) \div d.stride < d.n

CellIdx(s, a) == (a - s.img[SlotOf(a)].area) \div s.img[SlotOf(a)].stride
CellAt(s, k, i) == s.img[k].area + i * s.img[k].stride

\* the cells of the page at slot k whose link bytes differ from the image
TouchedCells(s, k) ==
  {(x - s.img[k].area) \div s.img[k].stride :
     x \in {y \in DOMAIN s.mem :
              /\ SlotOf(y) = k /\ y >= s.img[k].area
              /\ (y - s.img[k].area) % s.img[k].stride < PtrSize
              /\ (y - s.img[k].area) \div s.img[k].stride < s.img[k].n}}

\* the untouched cells the image links from cell i of page k on, and the
\* cell the walk continues at
Run(s, k, i) ==
  IF s.img[k].fwd
  THEN Then({t \in TouchedCells(s, k) : t > i}, LAMBDA stops :
         Then(IF stops = {} THEN s.img[k].n ELSE SetMin(stops), LAMBDA j :
           [lo |-> i, hi |-> j - 1,
            next |-> IF j = s.img[k].n THEN NULL ELSE CellAt(s, k, j)]))
  ELSE Then({t \in TouchedCells(s, k) : t < i}, LAMBDA stops :
         Then(IF stops = {} THEN 0 - 1 ELSE SetMax(stops), LAMBDA j :
           [lo |-> j + 1, hi |-> i,
            next |-> IF j = 0 - 1 THEN NULL ELSE CellAt(s, k, j)]))

RECURSIVE Walk(_, _, _)
Walk(s, cell, fuel) ==
  IF cell = NULL THEN << >>
  ELSE IF fuel = 0
    THEN <<[k |-> SlotOf(cell), lo |-> 0, hi |-> 0 - 1, cell |-> cell, loop |-> TRUE]>>
  ELSE IF ~IsCell(s, cell)
    THEN <<[k |-> SlotOf(cell), lo |-> 0, hi |-> 0 - 1, cell |-> cell, loop |-> FALSE]>>
         \o (IF cell < 0 \/ SlotOf(cell) \notin s.own THEN << >>
             ELSE Walk(s, DecPtr(Rd8(s, cell)), fuel - 1))
  ELSE IF s.img[SlotOf(cell)].stride >= PtrSize
          /\ CellIdx(s, cell) \notin TouchedCells(s, SlotOf(cell))
    THEN Then(Run(s, SlotOf(cell), CellIdx(s, cell)), LAMBDA r :
           <<[k |-> SlotOf(cell), lo |-> r.lo, hi |-> r.hi, cell |-> cell,
              loop |-> FALSE]>>
           \o Walk(s, r.next, fuel - 1))
  ELSE <<[k |-> SlotOf(cell), lo |-> CellIdx(s, cell), hi |-> CellIdx(s, cell),
          cell |-> cell, loop |-> FALSE]>>
       \o Walk(s, DecPtr(Rd8(s, cell)), fuel - 1)

\* more segments than a list without a cycle can have
WalkFuel(s) == Cardinality(DOMAIN s.mem) + 2 * NSlots + 2

\* the free list of the small page at slot k (part_002: page->free_list at
\* offset 16; allocator.c 1..282: at offset 32)
PageList(s, k) ==
  Walk(s, DecPtr(Rd8(s, k * PAGE_SIZE + (IF variant = "A1" THEN 32 ELSE 16))),
       WalkFuel(s))

\* the free list of class i (allocator.c 283..559: allFreeLists[i])
ClassList(s, i) == Walk(s, s.flists[i], WalkFuel(s))

\* every address of the list l lies in the page at slot k
WithinPage(l, k) == \A j \in DOMAIN l : l[j].k = k

\* the last call released a small cell the client held
SmallFreed ==
  last.op = "free" /\ last.p # NULL /\ last.st = "ok" /\ last.c <= MAX_SMALL_SIZE

\* C16 (no cross-page threading): in every state of a running process every
\* cell on a free list lies in the page the list belongs to (the page whose
\* header holds the head; for a list kept per class, the page of its first
\* cell), and a cell just released is the head of the list of its own page.
C16_OwnPage ==
  status = "ok" =>
    /\ variant \in {"P2", "A1"} =>
         \A k \in DOMAIN img : \A l \in {PageList(S, k)} : WithinPage(l, k)
    /\ variant = "A2" =>
         \A i \in DOMAIN flists : \A l \in {ClassList(S, i)} :
            l # << >> => WithinPage(l, l[1].k)
    /\ SmallFreed => FreeListHead(S, last.p, last.c) = last.p

\* ---- C17
\* the walk ended at null and every address it came to is a cell
Proper(l) == \A j \in DOMAIN l : ~l[j].loop /\ l[j].lo <= l[j].hi

\* no cell is on the list twice
NoDuplicate(l) ==
  \A j1, j2 \in DOMAIN l :
    j1 < j2 => l[j1].k # l[j2].k \/ l[j1].hi < l[j2].lo \/ l[j2].hi < l[j1].lo

\* the indexes of the cells of the page at slot k that are on the list l
FreeCells(l, k) ==
  UNION {l[j].lo..l[j].hi : j \in {x \in DOMAIN l : l[x].k = k}}

\* the indexes of the cells of the page at slot k that the client holds
LiveCells(s, k) ==
  {CellIdx(s, e.p) : e \in {x \in live : SlotOf(x.p) = k /\ IsCell(s, x.p)}}

\* the list that holds the free cells of the page at slot k
FreeListOf(s, k) ==
  IF variant = "A2" THEN ClassList(s, sizeToIndex(s.img[k].stride))
  ELSE PageList(s, k)

\* C17 (cell state conservation): in every state the program reaches
\* without a fault, for every page of small cells the free list ends at null,
\* holds cells only and none twice, holds no cell the client holds, and the
\* free cells and the held cells together are the cells made with the page.
C17_Conservation ==
  status = "ok" =>
    \A k \in DOMAIN img : \A l \in {FreeListOf(S, k)} :
      /\ Proper(l)
      /\ NoDuplicate(l)
      /\ \A e \in live : SlotOf(e.p) = k => IsCell(S, e.p)
      /\ FreeCells(l, k) \cap LiveCells(S, k) = {}
      /\ FreeCells(l, k) \cup LiveCells(S, k) = 0..(img[k].n - 1)

\* ---- C18
\* the block sizes the build makes pages for
BlockSizes(v) ==
  CASE v = "P2" -> {class_to_size(i) : i \in 0..(NUM_SIZE_CLASSES - 1)}
    [] v = "A1" -> {get_object_size(i) : i \in 0..(NUM_SIZE_CLASSES - 1)}
    [] v = "A2" -> {roundPageSize(n) : n \in 1..MAX_SMALL}

\* the head of the page list of the class of block size bs
ClassHead(v, s, bs) ==
  CASE v = "P2" -> s.heads[size_to_class(bs)]
    [] v = "A1" -> s.heads[get_size_class(bs)]
    [] v = "A2" -> s.flists[sizeToIndex(bs)]

\* malloc up to the point where the new page is on the list of its class
\* (part_002:160-169, allocator.c:165-171, allocator.c:423-429);
\* .ret = the page, or NULL when mmap refused
provision_(v, s, bs, at, fm) ==
  CASE v = "P2" ->
         Then(create_page_for_size(s, bs, at, fm), LAMBDA c :
           IF c.status # "ok" \/ c.ret = NULL THEN c
           ELSE RetOf(SetHead(WrPtr(c, c.ret + 8, s.heads[size_to_class(bs)], fm),
                              size_to_class(bs), c.ret), c.ret))
    [] v = "A1" ->
         Then(create_page(s, bs, at, fm), LAMBDA c :
           IF c.status # "ok" \/ c.ret = NULL THEN c
           ELSE RetOf(SetHead(WrPtr(c, c.ret + 24, s.heads[get_size_class(bs)], fm),
                              get_size_class(bs), c.ret), c.ret))
    [] v = "A2" ->
         Then(allocatePage(s, bs, sizeToIndex(bs), at, fm), LAMBDA a :
           RetOf(a, IF a.heads[sizeToIndex(bs)] = s.heads[sizeToIndex(bs)]
                    THEN NULL ELSE a.heads[sizeToIndex(bs)]))

\* the first request for a class that has nothing to give makes a page
Provision(bs) ==
  /\ Running
  /\ last.op # "provision"
  /\ ClassHead(variant, S, bs) = NULL
  /\ LET run(at, fm) == provision_(variant, S, bs, at, fm) IN
     \E r \in Results(run) :
       /\ Apply(r)
       /\ live' = live
       /\ last' = Call("provision", NULL, bs, 0, 0, r)
       /\ calls' = calls + 1
  /\ UNCHANGED variant

NextProvision == \E bs \in BlockSizes(variant) : Provision(bs)

SpecProvision == Init /\ [][NextProvision]_vars

\* the link stored in cell i of the page image d
LinkOf(s, d, i) == DecPtr(Rd8(s, d.area + i * d.stride))

\* from head the stored links run through the cells of d, each once, from
\* the last cell down to the first or from the first up to the last, and
\* end at null
Enumerates(s, d, head) ==
  /\ d.n > 0
  /\ \/ /\ head = d.area + (d.n - 1) * d.stride
        /\ \A i \in 0..(d.n - 1) :
             LinkOf(s, d, i) = IF i = 0 THEN NULL ELSE d.area + (i - 1) * d.stride
     \/ /\ head = d.area
        /\ \A i \in 0..(d.n - 1) :
             LinkOf(s, d, i) = IF i = d.n - 1 THEN NULL ELSE d.area + (i + 1) * d.stride

\* C18 (page provisioning): a page made for a block size has
\* floor((PAGE_SIZE - aligned header size) / block size) cells, block size
\* apart from the end of the aligned header on, and the stored links lead
\* from the head of its free list through each of these cells once and then
\* to null.
C18_Provisioning ==
  last.op = "provision" =>
    /\ last.st = "ok"
    /\ last.ret # NULL =>
         \A d \in {[area |-> last.ret + PageHeaderSize(variant),
                    stride |-> last.c,
                    n |-> (PAGE_SIZE - PageHeaderSize(variant)) \div last.c]} :
           /\ SlotOf(last.ret) \in DOMAIN img
           /\ img[SlotOf(last.ret)].area = d.area
           /\ img[SlotOf(last.ret)].stride = d.stride
           /\ img[SlotOf(last.ret)].n = d.n
           /\ Enumerates(S, d, FreeListHead(S, last.ret, last.c))

\* ---- C19
\* how far from a multiple of the page size the large requests are taken
Edge == 32

\* large requests: the smallest one, and those around the multiples of the
\* page size up to the largest value of size_t
LargeSizes ==
  {MAX_SMALL_SIZE + 1} \cup
  {n \in (MAX_SMALL_SIZE + 1)..SizeMax(SizeBits) :
     n % PAGE_SIZE <= Edge \/ n % PAGE_SIZE >= PAGE_SIZE - Edge}

\* the first call of a run is malloc(n) for a large n
LargeRequest(n) ==
  /\ Running
  /\ calls <= 1
  /\ last.op # "malloc"
  /\ LET run(at, fm) == malloc_(variant, S, n, at, fm) IN
     \E r \in Results(run) :
       /\ Apply(r)
       /\ live' = Issue(live, r, n)
       /\ last' = Call("malloc", NULL, 0, n, 0, r)
       /\ calls' = calls + 1
  /\ UNCHANGED variant

NextLarge == \E n \in LargeSizes : LargeRequest(n)

SpecLarge == Init /\ [][NextLarge]_vars

\* the step is a call malloc(n) with n > 1024
LargeStep ==
  calls' = calls + 1 /\ last'.op = "malloc" /\ last'.n > MAX_SMALL_SIZE

\* the length of what the step mapped
Mapped == Cardinality(own' \ own) * PAGE_SIZE

\* C19 (large capacity): malloc(n) with n > 1024 returns null, or it maps
\* the smallest multiple of the page size that holds n + header size, the
\* sum taken in size_t arithmetic, and the region less its header has room
\* for n bytes.
C19_LargeCapacity ==
  [][LargeStep =>
       /\ last'.st = "ok"
       /\ last'.ret # NULL =>
            /\ Mapped >= WrapSize(last'.n + LargeHeaderSize(variant))
            /\ Mapped - PAGE_SIZE < WrapSize(last'.n + LargeHeaderSize(variant))
            /\ Mapped - LargeHeaderSize(variant) >= last'.n]_vars

\* ---- C20
\* the calls of a run of large requests
MaxLargeCalls == 4
\* a request of one page and a request of two
ListSizes == {MAX_SMALL_SIZE + 1, PAGE_SIZE + 1}

LargeRunning == status = "ok" /\ calls < MaxLargeCalls
LargeHeld == {e \in live : e.c > MAX_SMALL_SIZE}

\* malloc(n), n large
LargeMalloc(n) ==
  /\ LargeRunning
  /\ LET run(at, fm) == malloc_(variant, S, n, at, fm) IN
     \E r \in Results(run) :
       /\ Apply(r)
       /\ live' = Issue(live, r, n)
       /\ last' = Call("malloc", NULL, 0, n, 0, r)
       /\ calls' = calls + 1
  /\ UNCHANGED variant

\* free(e.p) of a large block the client holds
LargeFree(e) ==
  /\ LargeRunning
  /\ e \in LargeHeld
  /\ LET run(at, fm) == free_(variant, S, e.p, fm) IN
     \E r \in Results(run) :
       /\ Apply(r)
       /\ live' = live \ {e}
       /\ last' = Call("free", e.p, e.c, 0, 0, [r EXCEPT !.ret = NULL])
       /\ calls' = calls + 1
  /\ UNCHANGED variant

\* realloc(e.p, n) of a large block the client holds, n large
LargeRealloc(e, n) ==
  /\ LargeRunning
  /\ e \in LargeHeld
  /\ LET run(at, fm) == realloc_(variant, S, e.p, n, at, fm)
         rest == live \ {e}
     IN \E r \in Results(run) :
       /\ Apply(r)
       /\ live' = IF r.status # "ok" THEN live
                  ELSE IF r.ret = NULL THEN live
                  ELSE IF r.ret = e.p THEN rest \cup {Entry(rest, e.p, e.c)}
                  ELSE Issue(rest, r, n)
       /\ last' = Call("realloc", e.p, e.c, n, 0, r)
       /\ calls' = calls + 1
  /\ UNCHANGED variant

NextLargeList ==
  \/ \E n \in ListSizes : LargeMalloc(n)
  \/ \E e \in live : LargeFree(e)
  \/ \E e \in live, n \in ListSizes : LargeRealloc(e, n)

SpecLargeList == Init /\ [][NextLargeList]_vars

\* the length the header of the region at base records (part_002:
\* total_size; allocator.c 1..282: size; allocator.c 283..559: mmap_size)
RecordedLength(s, base) ==
  DecSize(Rd8(s, base + (IF variant = "A2" THEN 8 ELSE 0)))

\* every large block held lies in a mapped region whose header records the
\* length mapped
RegionsIntact(s) ==
  \A e \in LargeHeld :
    /\ RegionSlots(e) \subseteq s.own
    /\ RecordedLength(s, e.p - LargeHeaderSize(variant)) = e.c + LargeHeaderSize(variant)

\* part_002: the nodes from large_blocks_head are the regions of the large
\* blocks held, each once; the head has no prev, and every other node's
\* prev is the node before it
ListIntact(s) ==
  \A l \in {LargeList(s)} :
    /\ {l[j] : j \in DOMAIN l} = {e.p - P2_sizeof_large_block_header : e \in LargeHeld}
    /\ Len(l) = Cardinality(LargeHeld)
    /\ l # << >> => DecPtr(Rd8(s, l[1] + 16)) = NULL
    /\ \A j \in 1..(Len(l) - 1) : DecPtr(Rd8(s, l[j + 1] + 16)) = l[j]

Integrity ==
  /\ status = "ok"
  /\ RegionsIntact(S)
  /\ variant = "P2" => ListIntact(S)

\* the step is a call on large blocks only
LargeCall ==
  /\ calls' = calls + 1
  /\ \/ last'.op = "malloc" /\ last'.n > MAX_SMALL_SIZE
     \/ last'.op = "free" /\ last'.c > MAX_SMALL_SIZE
     \/ last'.op = "realloc" /\ last'.c > MAX_SMALL_SIZE /\ last'.n > MAX_SMALL_SIZE

\* the step released the large block at e: its region left the address
\* space by one munmap
Released1(e) ==
  /\ RegionSlots(e) \cap own' = {}
  /\ last'.nunmap = 1

\* C20 (large-region list integrity): after every call of a run of large
\* malloc, free and realloc calls the nodes reachable from the head of the
\* large list are the regions of the large blocks held, each mapped and
\* recording the length mapped, the head has no prev and every successor's
\* prev is its predecessor; a release ends without a fault with the region
\* off the list and unmapped.
C20_LargeList ==
  [][LargeCall =>
       /\ Integrity'
       /\ \A e \in LargeHeld : e \notin live' => Released1(e)]_vars

\* part_002 released a large block while two others were held
C20_Witness ==
  /\ variant = "P2"
  /\ last.op = "free" /\ last.c > MAX_SMALL_SIZE /\ last.st = "ok"
  /\ Len(LargeList(S)) = 2

\* ---- C21
\* the calls of a run of small requests
MaxSmallCalls == 2

\* small requests: the largest one of every class and the one after it
ClassRequests ==
  {n \in 1..MAX_SMALL_SIZE : \E i \in 0..NUM_SIZE_CLASSES : n = 2^i \/ n = 2^i + 1}

\* malloc(n), n small
SmallMalloc(n) ==
  /\ status = "ok"
  /\ calls < MaxSmallCalls
  /\ LET run(at, fm) == malloc_(variant, S, n, at, fm) IN
     \E r \in Results(run) :
       /\ Apply(r)
       /\ live' = Issue(live, r, n)
       /\ last' = Call("malloc", NULL, 0, n, 0, r)
       /\ calls' = calls + 1
  /\ UNCHANGED variant

NextClasses == \E n \in ClassRequests : SmallMalloc(n)

SpecClasses == Init /\ [][NextClasses]_vars

\* C21 (alignment): every non-null pointer malloc returns for a request of
\* 1..1024 bytes is a multiple of the pointer width, and the cells of every
\* page of small cells start at a multiple of the pointer width.
C21_Aligned ==
  /\ (last.op = "malloc" /\ last.n >= 1 /\ last.n <= MAX_SMALL_SIZE /\ last.ret # NULL)
       => last.ret % PtrSize = 0
  /\ \A k \in DOMAIN img : img[k].area % PtrSize = 0

\* ---- C22
\* the calls of a run with a double release
MaxDoubleCalls == 5
\* requests of the smallest class, of the 8-byte class and of the largest
DoubleSizes == {MIN_SIZE, PtrSize, MAX_SMALL_SIZE}

DoubleRunning == status = "ok" /\ calls < MaxDoubleCalls

\* malloc(n), n small
DoubleMalloc(n) ==
  /\ DoubleRunning
  /\ LET run(at, fm) == malloc_(variant, S, n, at, fm) IN
     \E r \in Results(run) :
       /\ Apply(r)
       /\ live' = Issue(live, r, n)
       /\ last' = Call("malloc", NULL, 0, n, 0, r)
       /\ calls' = calls + 1
  /\ UNCHANGED variant

\* free(e.p) of a small block the client holds
DoubleFree(e) ==
  /\ DoubleRunning
  /\ e \in live
  /\ LET run(at, fm) == free_(variant, S, e.p, fm) IN
     \E r \in Results(run) :
       /\ Apply(r)
       /\ live' = live \ {e}
       /\ last' = Call("free", e.p, e.c, 0, 0, [r EXCEPT !.ret = NULL])
       /\ calls' = calls + 1
  /\ UNCHANGED variant

\* no free list runs in a cycle: nothing was released twice so far
NoCycle ==
  \A k \in DOMAIN img : \A l \in {FreeListOf(S, k)} : \A j \in DOMAIN l : ~l[j].loop

\* free(p) once more, right after the call free(p) that released p; it is
\* the first double release of the run
FreeAgain ==
  /\ DoubleRunning
  /\ last.op = "free" /\ last.p # NULL /\ last.st = "ok"
  /\ NoCycle
  /\ \A e \in live : e.p # last.p
  /\ LET run(at, fm) == free_(variant, S, last.p, fm) IN
     \E r \in Results(run) :
       /\ Apply(r)
       /\ live' = live
       /\ last' = Call("badfree", last.p, last.c, 0, 0, [r EXCEPT !.ret = NULL])
       /\ calls' = calls + 1
  /\ UNCHANGED variant

NextDouble ==
  \/ \E n \in DoubleSizes : DoubleMalloc(n)
  \/ \E e \in live : DoubleFree(e)
  \/ FreeAgain

SpecDouble == Init /\ [][NextDouble]_vars

\* the cell p of block size c is the head of its free list and its link
\* leads back to p
SelfLinked(s, p, c) ==
  /\ FreeListHead(s, p, c) = p
  /\ DecPtr(Rd8(s, p)) = p

\* the next cell malloc hands out for block size c comes from p's page
\* (the first page of the class that has free cells; allocator.c 283..559
\* has one list for the class)
ServedFrom(s, p, c) ==
  CASE variant = "P2" ->
         P2_first_free(s, s.heads[size_to_class(c)], FALSE, Fuel).ret = PageOf(p)
    [] variant = "A1" ->
         A1_first_free(s, s.heads[get_size_class(c)], FALSE, Fuel).ret = PageOf(p)
    [] variant = "A2" -> TRUE

\* the step is the second of two calls free(p) in a row, p a small cell
SecondFree ==
  /\ calls' = calls + 1
  /\ last.op = "free" /\ last.st = "ok" /\ last.c <= MAX_SMALL_SIZE
  /\ last'.op = "badfree" /\ last'.p = last.p

\* the step is a call of malloc for the class of the cell p that came to
\* head a list leading back to itself, served from p's page
ServeStep(p, c) ==
  /\ calls' = calls + 1
  /\ last'.op = "malloc" /\ last'.n >= 1 /\ last'.n <= MAX_SMALL_SIZE
  /\ SmallCap(variant, last'.n) = c
  /\ SelfLinked(S, p, c)
  /\ ServedFrom(S, p, c)

\* C22 (double release is undetected): the second of two calls free(p) in a
\* row returns with p the head of its free list and p's link leading to p;
\* a call of malloc served from that list then returns p and leaves the
\* list as it was, and so does the call of malloc after it.
C22_DoubleFree ==
  [][/\ SecondFree => (last'.st = "ok" /\ SelfLinked(S', last.p, last.c))
     /\ (last.op = "badfree" /\ last.c <= MAX_SMALL_SIZE /\ ServeStep(last.p, last.c))
          => (last'.ret = last.p /\ SelfLinked(S', last.p, last.c))
     /\ (last.op = "malloc" /\ last.ret # NULL /\ last.n <= MAX_SMALL_SIZE
          /\ ServeStep(last.ret, SmallCap(variant, last.n)))
          => last'.ret = last.ret]_vars

\* ---- C23
\* The calls of the model are single steps; a loop over a list that does
\* not come to an end within Fuel rounds leaves status = "hang".  The walks
\* of the code are also taken one node at a time: between two calls a walk
\* starts at the head of a list the code walks (the page list of a class in
\* part_002 and allocator.c 1..282, the large list in part_002) and goes
\* from node to node by the next field until it comes to null, as
\* find_page_containing_ptr and the loop of free do for a pointer that is
\* on no node.  last.p is the node the walk is at.
NextOffset == IF variant = "A1" THEN 24 ELSE 8

ListHeads ==
  {h \in {heads[i] : i \in DOMAIN heads} \cup {lhead} :
     h # NULL /\ variant \in {"P2", "A1"}}

Walking == last.op = "walk" /\ last.p # NULL /\ status = "ok"
WalkDone == last.op = "walk" /\ last.p = NULL /\ status = "ok"

StartWalk(h) ==
  /\ status = "ok"
  /\ ~Walking
  /\ h \in ListHeads
  /\ last' = [NoCall EXCEPT !.op = "walk", !.p = h]
  /\ UNCHANGED <<variant, mem, img, own, heads, flists, lhead, status, live, calls,
               thr>>

\* `page = page->next` (`large = large->next`)
StepWalk ==
  /\ Walking
  /\ IF Accessible(S, last.p + NextOffset, PtrSize, FALSE)
     THEN /\ last' = [last EXCEPT !.p = DecPtr(Rd8(S, last.p + NextOffset))]
          /\ status' = status
     ELSE /\ last' = [last EXCEPT !.st = "segv"]
          /\ status' = "segv"
  /\ UNCHANGED <<variant, mem, img, own, heads, flists, lhead, live, calls, thr>>

NextTerm ==
  \/ ~Walking /\ Next
  \/ \E h \in ListHeads : StartWalk(h)
  \/ StepWalk

\* the thread that runs a walk keeps running
SpecTerm == Init /\ [][NextTerm]_vars /\ WF_vars(StepWalk)

\* C23 (termination): no call of malloc, free, calloc or realloc of a legal
\* run is left in a loop that does not end, and every walk over the page
\* list of a class or over the large list comes to null.
C23_Termination ==
  /\ [](status # "hang")
  /\ Walking ~> WalkDone

\* ---- C24
\* Two threads call malloc with no lock: each access of the shared state
\* (the head of a page list, of a free list, of the large list, a link) is
\* a step of its own, and the steps of the two threads interleave.  Each
\* thread makes at most one call for a block of the largest small class and,
\* in part_002, one call for a large block.
RaceSizes == {MAX_SMALL_SIZE, MAX_SMALL_SIZE + 1}

\* the first page of n's class that has a free cell (allocator.c 283..559:
\* the head of the class's free list), NULL when there is none
FoundPage(s, n) ==
  CASE variant = "P2" -> P2_first_free(s, s.heads[size_to_class(n)], FALSE, Fuel).ret
    [] variant = "A1" -> A1_first_free(s, s.heads[get_size_class(n)], FALSE, Fuel).ret
    [] variant = "A2" -> s.flists[sizeToIndex(roundPageSize(n))]

\* `block = page->free_list` (allocator.c 283..559: allFreeLists[index])
load_head(s, page, n) ==
  CASE variant = "P2" -> DecPtr(Rd8(s, page + 16))
    [] variant = "A1" -> DecPtr(Rd8(s, page + 32))
    [] variant = "A2" -> s.flists[sizeToIndex(roundPageSize(n))]

\* a variation of store_head: the head is left as it is
store_head_none(s, page, n, next) == s

\* `page->free_list = block->next` (allocator.c 283..559:
\* allFreeLists[index] = *(void **)block), block->next read before
store_head(s, page, n, next) ==
  CASE variant = "P2" -> WrPtr(s, page + 16, next, FALSE)
    [] variant = "A1" -> WrPtr(s, page + 32, next, FALSE)
    [] variant = "A2" -> SetFreeList(s, sizeToIndex(roundPageSize(n)), next)

\* thread t goes on to rec, the shared state becomes r
StepTo(r, t, rec) ==
  /\ ApplyShared(r)
  /\ thr' = [thr EXCEPT ![t] = IF r.status = "ok" THEN rec ELSE @]
  /\ UNCHANGED <<variant, live, last, calls>>

\* thread t's call returns ret, a block of capacity cap, or NULL
Return(r, t, rec, ret, cap) ==
  /\ ApplyShared(r)
  /\ thr' = [thr EXCEPT ![t] = [rec EXCEPT !.pc = "idle"]]
  /\ live' = IF ret # NULL THEN live \cup {Entry(live, ret, cap)} ELSE live
  /\ last' = Call("malloc", NULL, 0, thr[t].n, 0, [r EXCEPT !.ret = ret])
  /\ calls' = calls + 1
  /\ UNCHANGED variant

\* thread t calls malloc(n); a call for a small block is taken when a page
\* of the class has a free cell, a call for a large block in part_002
Begin(t, n) ==
  /\ status = "ok"
  /\ thr[t].pc = "idle"
  /\ IF n <= MAX_SMALL_SIZE
     THEN thr[t].ret = NONE /\ FoundPage(S, n) # NULL
     ELSE thr[t].reg = NONE /\ variant = "P2"
  /\ thr' = [thr EXCEPT ![t] = [@ EXCEPT !.pc = IF n <= MAX_SMALL_SIZE THEN "find" ELSE "map",
                                          !.n = n]]
  /\ UNCHANGED <<variant, mem, img, own, heads, flists, lhead, status, live, last, calls>>

\* the search for a page with a free cell
Find(t) ==
  /\ status = "ok"
  /\ thr[t].pc = "find"
  /\ FoundPage(S, thr[t].n) # NULL
  /\ StepTo(S, t, [thr[t] EXCEPT !.pc = "head", !.page = FoundPage(S, thr[t].n)])

\* block = page->free_list
ReadHead(t) ==
  /\ status = "ok"
  /\ thr[t].pc = "head"
  /\ StepTo(S, t, [thr[t] EXCEPT !.pc = "link",
                                  !.block = load_head(S, thr[t].page, thr[t].n)])

\* the read of block->next
ReadLink(t) ==
  /\ status = "ok"
  /\ thr[t].pc = "link"
  /\ IF Accessible(S, thr[t].block, PtrSize, FALSE)
     THEN StepTo(S, t, [thr[t] EXCEPT !.pc = "write",
                                      !.next = DecPtr(Rd8(S, thr[t].block))])
     ELSE StepTo(Segv(S), t, thr[t])

\* page->free_list = the link read; allocator.c 1..282 also counts the
\* cell off (free_count--, taken with the store); return block
WriteHead(t) ==
  /\ status = "ok"
  /\ thr[t].pc = "write"
  /\ \E r \in {store_head(S, thr[t].page, thr[t].n, thr[t].next)} :
       \E r2 \in {IF variant = "A1"
                  THEN WrSize(r, thr[t].page + 16, A1_count(r, thr[t].page, 0 - 1), FALSE)
                  ELSE r} :
         Return(r2, t, [thr[t] EXCEPT !.ret = thr[t].block], thr[t].block,
                SmallCap(variant, thr[t].n))

\* part_002, large: mmap; header->total_size = alloc_size
MapRegion(t) ==
  /\ status = "ok"
  /\ thr[t].pc = "map"
  /\ \E at \in {0} \cup {k \in 1..NSlots : k \notin own} :
       \E alloc_size \in {PagesOf(thr[t].n + P2_sizeof_large_block_header) * PAGE_SIZE} :
         IF mmapResult(S, alloc_size, at) = MAP_FAILED
         THEN Return(mmap(S, alloc_size, at), t, [thr[t] EXCEPT !.reg = NULL], NULL, 0)
         ELSE StepTo(WrSize(mmap(S, alloc_size, at), mmapResult(S, alloc_size, at),
                            alloc_size, FALSE),
                     t, [thr[t] EXCEPT !.pc = "lnext",
                                       !.page = mmapResult(S, alloc_size, at)])

\* header->next = large_blocks_head; header->prev = NULL
LinkNext(t) ==
  /\ status = "ok"
  /\ thr[t].pc = "lnext"
  /\ StepTo(WrPtr(WrPtr(S, thr[t].page + 8, lhead, FALSE), thr[t].page + 16, NULL, FALSE),
            t, [thr[t] EXCEPT !.pc = "lchk"])

\* the read of large_blocks_head in `if (large_blocks_head)`
CheckHead(t) ==
  /\ status = "ok"
  /\ thr[t].pc = "lchk"
  /\ StepTo(S, t, [thr[t] EXCEPT !.pc = "lprev", !.block = lhead])

\* large_blocks_head->prev = header, through the head just read
LinkPrev(t) ==
  /\ status = "ok"
  /\ thr[t].pc = "lprev"
  /\ StepTo(IF thr[t].block # NULL
            THEN WrPtr(S, thr[t].block + 16, thr[t].page, FALSE) ELSE S,
            t, [thr[t] EXCEPT !.pc = "lhead"])

\* large_blocks_head = header; return the address behind the header
PublishHead(t) ==
  /\ status = "ok"
  /\ thr[t].pc = "lhead"
  /\ Return(SetLargeHead(S, thr[t].page), t, [thr[t] EXCEPT !.reg = thr[t].page],
            thr[t].page + P2_sizeof_large_block_header,
            PagesOf(thr[t].n + P2_sizeof_large_block_header) * PAGE_SIZE
              - P2_sizeof_large_block_header)

\* the client's first call, made before it starts the second thread
FirstCall ==
  /\ calls = 0
  /\ \A t \in Threads : thr[t] = Idle
  /\ Malloc(MAX_SMALL_SIZE)

NextRace ==
  \/ FirstCall
  \/ \E t \in Threads, n \in RaceSizes : Begin(t, n)
  \/ \E t \in Threads : Find(t)
  \/ \E t \in Threads : ReadHead(t)
  \/ \E t \in Threads : ReadLink(t)
  \/ \E t \in Threads : WriteHead(t)
  \/ \E t \in Threads : MapRegion(t)
  \/ \E t \in Threads : LinkNext(t)
  \/ \E t \in Threads : CheckHead(t)
  \/ \E t \in Threads : LinkPrev(t)
  \/ \E t \in Threads : PublishHead(t)

SpecRace == Init /\ [][NextRace]_vars

\* both threads are back from a call for a small block
BothSmall ==
  /\ status = "ok"
  /\ \A t \in Threads : thr[t].ret # NONE /\ thr[t].pc \notin {"find", "head", "link", "write"}

\* both threads are back from a call for a large block with a region each
BothLarge ==
  /\ status = "ok"
  /\ \A t \in Threads : thr[t].reg \notin {NONE, NULL} /\ thr[t].pc \notin {"map", "lnext", "lchk", "lprev", "lhead"}

LinkAt(s, cell) == DecPtr(Rd8(s, cell))

\* a region a thread mapped is not among the nodes from large_blocks_head
Missing(t) == \A j \in DOMAIN LargeList(S) : LargeList(S)[j] # thr[t].reg

\* C24 (no synchronisation): the calls of two threads for the same class
\* either take two cells, one the successor of the other, or return the
\* same cell and take only that one off the list; of two regions mapped by
\* the two threads the one published last is the head of the large list,
\* and the other one is missing from the list only when both headers
\* recorded the same successor.
C24_Unsynchronised ==
  /\ BothSmall =>
       \A a \in {thr[1].ret} : \A b \in {thr[2].ret} :
         \A head \in {FreeListHead(S, a, MAX_SMALL_SIZE)} :
           \/ a = b /\ head = LinkAt(S, a)
           \/ /\ a # b
              /\ PageOf(a) = PageOf(b) \/ variant = "A2"
              /\ \/ LinkAt(S, a) = b /\ head = LinkAt(S, b)
                 \/ LinkAt(S, b) = a /\ head = LinkAt(S, a)
  /\ BothLarge =>
       /\ lhead \in {thr[1].reg, thr[2].reg}
       /\ \A t \in Threads :
            Missing(t) => LinkAt(S, thr[1].reg + 8) = LinkAt(S, thr[2].reg + 8)

\* both threads were given the same cell, and of the two regions they
\* mapped one is not on the large list
C24_Witness ==
  /\ BothSmall /\ thr[1].ret = thr[2].ret /\ thr[1].ret # NULL
  /\ \E e \in live : e.p = thr[1].ret /\ e.k = 1
  /\ BothLarge /\ \E t \in Threads : Missing(t)

\* ---- C25
\* runs in which pages are made for every block size and small blocks are
\* handed out and released
MaxLinkCalls == 3

NextLinks ==
  \/ \E bs \in BlockSizes(variant) : Provision(bs)
  \/ \E n \in DoubleSizes : calls < MaxLinkCalls /\ DoubleMalloc(n)
  \/ \E e \in live : calls < MaxLinkCalls /\ DoubleFree(e)

SpecLinks == Init /\ [][NextLinks]_vars

\* the step changes the byte at a
Changes(a) == Byte(S, a) # Byte(S', a)

\* the linking loop of the page made by the step stored each link, PtrSize
\* bytes at the start of a cell, inside that cell and inside the page, and
\* the step changed no byte of another page
ProvisionContained ==
  /\ status' = "ok"
  /\ last'.ret # NULL =>
       \A d \in {img'[SlotOf(last'.ret)]} :
         /\ \A i \in 0..(d.n - 1) :
              /\ PtrSize <= d.stride
              /\ d.area + i * d.stride + PtrSize <= last'.ret + PAGE_SIZE
         /\ \A a \in DOMAIN mem \cup DOMAIN mem' :
              Changes(a) => SlotOf(a) = SlotOf(last'.ret)

\* free(p) of a cell of c bytes stored the link inside the cell: besides
\* the header of p's page the step changed only bytes of [p, p + c)
ReleaseContained ==
  /\ status' = "ok"
  /\ PtrSize <= last'.c
  /\ \A a \in DOMAIN mem \cup DOMAIN mem' :
       Changes(a) =>
         \/ a >= last'.p /\ a < last'.p + last'.c
         \/ a >= PageOf(last'.p) /\ a < PageOf(last'.p) + PageHeaderSize(variant)

\* C25 (free-list link containment): every link stored while a page is
\* provisioned and while a cell is released touches only bytes of that
\* cell, never a neighbouring cell and never a byte past the end of the
\* page, for all classes, the 2- and 4-byte classes included.
C25_LinkContainment ==
  [][calls' = calls + 1 =>
       /\ last'.op = "provision" => ProvisionContained
       /\ (last'.op = "free" /\ last'.c <= MAX_SMALL_SIZE) => ReleaseContained]_vars

====
